---- MODULE Spec2Model ----
(***************************************************************************)
(* A model of the humlex gateway (src/gateway/src).                        *)
(*                                                                         *)
(*   SpecRetry : sdk/retry.rs, one run of send_with_retry against an       *)
(*               upstream that gives some retryable outcomes and then a    *)
(*               non-retryable one.                                        *)
(*   SpecRoute : providers/registry.rs, ProviderKind::resolve_model on     *)
(*               model strings (sequences of characters).                  *)
(*   SpecAuth  : auth.rs and http/handlers.rs, the three authenticated     *)
(*               handlers up to the adapter call.                          *)
(***************************************************************************)
EXTENDS Integers, Sequences, FiniteSets, TLC

VARIABLES
    policy,     \* RetryPolicy {max_retries, base_delay_ms}         (retry.rs:10)
    plan,       \* the upstream: leading retryable outcomes, then `final`
    attempt,    \* send_with_retry's `attempt`                      (retry.rs:31)
    rpc,        \* where send_with_retry is: start, sending, sleeping, done
    builds,     \* invocations of build_request                     (retry.rs:34)
    sends,      \* sends awaited                                    (retry.rs:34)
    sleeps,     \* the durations slept, in order                    (retry.rs:37,46)
    last,       \* the outcome of the latest send
    result,     \* what send_with_retry returned
    model,      \* the model string given to resolve_model          (registry.rs:62)
    route,      \* Some((kind, upstream model)) once resolved
    config,     \* the Config the handlers share                    (state.rs:9)
    probe,      \* a provider and two client tokens
    creds,      \* Some of the two results of resolve_provider_api_key
    req,        \* the HTTP request a handler is given
    hpc,        \* where the handler is: recv, single, fetch_all, adapter, done
    calls,      \* the adapter calls the handler has made, in order
    idx,        \* list_models: the position in registry.all()   (handlers.rs:225)
    data,       \* list_models: `data`                            (handlers.rs:222)
    first_error, \* list_models: `first_error`                    (handlers.rs:223)
    fetched,    \* list_models: Some of what the latest fetch_models returned
    resp,       \* Some of what the handler returned
    acall,      \* the call of the Anthropic adapter: fn, api_key, request
    apc,        \* where that call is: start, sent, done
    abody,      \* Some of what to_anthropic_request returned  (anthropic.rs:268)
    posted,     \* the requests sent upstream, in order         (anthropic.rs:271)
    aresult,    \* Some of what the call returned
    spc,        \* where the stream of stream_text is: await, lines, closed, failed
    reads,      \* the chunks read from upstream so far
    buffer,     \* `buffer`                                  (anthropic.rs:321)
    current_event, \* `current_event`                        (anthropic.rs:322)
    message_id, \* `message_id`                              (anthropic.rs:323)
    stream_model, \* `model`                                 (anthropic.rs:324)
    created,    \* `created`                                 (anthropic.rs:315)
    sent_role,  \* `sent_role`                               (anthropic.rs:325)
    sent_done,  \* `sent_done`                               (anthropic.rs:326)
    finish_reason, \* `finish_reason`                        (anthropic.rs:327)
    yielded,    \* the items the stream has yielded, in order
    tpc,        \* where the transcoder is: await, lines, closed, failed
    chat_stream, \* `chat_stream`: the chunks it will yield   (responses.rs:111)
    polled,     \* the chunks chat_stream.next() has yielded so far
    tbuffer,    \* `buffer`                                  (responses.rs:113)
    response_id, \* `response_id`                            (responses.rs:114)
    response_model, \* `model`                               (responses.rs:115)
    created_at, \* `created`                                 (responses.rs:116)
    emitted_created, \* `emitted_created`                    (responses.rs:117)
    emitted_completed, \* `emitted_completed`                (responses.rs:118)
    full_text,  \* `full_text`                               (responses.rs:119)
    emitted,    \* the items the transcoder has yielded, in order
    gerror,     \* the GatewayError a handler returned              (error.rs:9)
    client,     \* Some of the response made of it                  (error.rs:29)
    adapter,    \* the provider whose stream_text is called
    stx,        \* where stream_text is: start, sending, done
    stream_result,\* Some of what stream_text returned
    registry,   \* AppState.registry: the adapter of each kind     (state.rs:8)
    inputs,     \* per request: what its client and its upstream send
    rq,         \* per request: the locals of its task
    upstream    \* the chunks the upstream of the request sends (anthropic.rs:318)

retryVars == <<policy, plan, attempt, rpc, builds, sends, sleeps, last, result>>

routeVars == <<model, route>>

credVars == <<config, probe, creds>>

handlerVars == <<req, hpc, calls, idx, data, first_error, fetched, resp>>

anthropicVars == <<acall, apc, abody, posted, aresult>>

streamVars == <<spc, reads, buffer, current_event, message_id, stream_model, created,
                sent_role, sent_done, finish_reason, yielded>>

transcodeVars == <<tpc, chat_stream, polled, tbuffer, response_id, response_model,
                   created_at, emitted_created, emitted_completed, full_text, emitted>>

errorVars == <<gerror, client>>

streamTextVars == <<adapter, stx, stream_result>>

concurrentVars == <<registry, inputs, rq>>

pipelineVars == <<upstream>>

vars == <<retryVars, routeVars, credVars, handlerVars, anthropicVars, streamVars, transcodeVars, errorVars, streamTextVars, concurrentVars, pipelineVars>>

\* what the actions of each part leave alone
notRetry == <<routeVars, credVars, handlerVars, anthropicVars, streamVars, transcodeVars, errorVars, streamTextVars, concurrentVars, pipelineVars>>
notRoute == <<retryVars, credVars, handlerVars, anthropicVars, streamVars, transcodeVars, errorVars, streamTextVars, concurrentVars, pipelineVars>>
notCred == <<retryVars, routeVars, handlerVars, anthropicVars, streamVars, transcodeVars, errorVars, streamTextVars, concurrentVars, pipelineVars>>
notHandler == <<retryVars, routeVars, probe, creds, anthropicVars, streamVars, transcodeVars, errorVars, streamTextVars, concurrentVars, pipelineVars>>
notAnthropic == <<retryVars, routeVars, credVars, handlerVars, streamVars, transcodeVars, errorVars, streamTextVars, concurrentVars, pipelineVars>>
notStream == <<retryVars, routeVars, credVars, handlerVars, anthropicVars, transcodeVars, errorVars, streamTextVars, concurrentVars, pipelineVars>>
notTranscode == <<retryVars, routeVars, credVars, handlerVars, anthropicVars, streamVars, errorVars, streamTextVars, concurrentVars, pipelineVars>>
notError == <<retryVars, routeVars, credVars, handlerVars, anthropicVars, streamVars, transcodeVars, streamTextVars, concurrentVars, pipelineVars>>
notStreamText == <<retryVars, routeVars, credVars, handlerVars, anthropicVars, streamVars, transcodeVars, errorVars, concurrentVars, pipelineVars>>
notStreamTextNorRetry == <<routeVars, credVars, handlerVars, anthropicVars, streamVars, transcodeVars, errorVars, concurrentVars, pipelineVars>>
notStreamTextNorStream == <<retryVars, routeVars, credVars, handlerVars, anthropicVars, transcodeVars, errorVars, concurrentVars, pipelineVars>>
notStreamNorRetry == <<routeVars, credVars, handlerVars, anthropicVars, transcodeVars, errorVars, streamTextVars, concurrentVars, pipelineVars>>
notConcurrent == <<retryVars, routeVars, credVars, handlerVars, anthropicVars, streamVars, transcodeVars, errorVars, streamTextVars, pipelineVars>>
notPipeline == <<retryVars, routeVars, credVars, handlerVars, anthropicVars, streamVars, transcodeVars, errorVars, streamTextVars, concurrentVars>>
notStreamNorTranscode == <<retryVars, routeVars, credVars, handlerVars, anthropicVars, errorVars, streamTextVars, concurrentVars, pipelineVars>>

None == [none |-> TRUE]

(***************************************************************************)
(* 64-bit unsigned integers.  TLC's integers are 32 bits wide, so a u64 is *)
(* four 16-bit limbs, least significant first.                             *)
(***************************************************************************)
Limb == 2 ^ 16

U64Max == <<Limb - 1, Limb - 1, Limb - 1, Limb - 1>>

U64(n) == <<n, 0, 0, 0>>

\* 1_u64 << e for the small exponents the code uses
Shl1(e) == 2 ^ e

Min(a, b) == IF a < b THEN a ELSE b

\* u64::saturating_mul by a small factor: schoolbook multiply with carry;
\* a carry out of the top limb is the overflow, and saturates.
saturating_mul(a, f) ==
    LET p1 == a[1] * f
        p2 == a[2] * f + (p1 \div Limb)
        p3 == a[3] * f + (p2 \div Limb)
        p4 == a[4] * f + (p3 \div Limb)
    IN  IF p4 \div Limb > 0
        THEN U64Max
        ELSE <<p1 % Limb, p2 % Limb, p3 % Limb, p4 % Limb>>

(***************************************************************************)
(* sdk/retry.rs                                                            *)
(***************************************************************************)
RetryStatuses == {429, 500, 502, 503, 504}

\* a bug: every 5xx is retried
retry_any_5xx(status) == status = 429 \/ status >= 500

should_retry_status(status) == status \in RetryStatuses

is_timeout(error) == error = "timeout"
is_connect(error) == error = "connect"
is_request(error) == error = "request"

should_retry_error(error) ==
    is_timeout(error) \/ is_connect(error) \/ is_request(error)

\* a bug: wrapping instead of saturating multiplication
delay_wrapping(retry_policy, n) ==
    LET f == Shl1(Min(n, 5))
        a == retry_policy.base_delay_ms
        p1 == a[1] * f
        p2 == a[2] * f + (p1 \div Limb)
        p3 == a[3] * f + (p2 \div Limb)
        p4 == a[4] * f + (p3 \div Limb)
    IN  <<p1 % Limb, p2 % Limb, p3 % Limb, p4 % Limb>>

\* a bug: the exponent is not capped at 5
delay_uncapped(retry_policy, n) ==
    saturating_mul(retry_policy.base_delay_ms, Shl1(n))

delay_for_attempt(retry_policy, n) ==
    LET factor == Shl1(Min(n, 5))
    IN  saturating_mul(retry_policy.base_delay_ms, factor)

\* The outcomes of one send: a response with a status, or a reqwest error.
Statuses == {200, 201, 204, 301, 400, 401, 403, 404, 429, 500, 501, 502, 503, 504, 505}
ErrorKinds == {"timeout", "connect", "request", "builder", "redirect"}

Response(s) == [kind |-> "status", val |-> s]
Failure(e) == [kind |-> "error", val |-> e]

Outcomes == {Response(s) : s \in Statuses} \cup {Failure(e) : e \in ErrorKinds}

Retryable(o) ==
    IF o.kind = "status" THEN should_retry_status(o.val) ELSE should_retry_error(o.val)

RetryableOutcomes == {o \in Outcomes : Retryable(o)}
FinalOutcomes == Outcomes \ RetryableOutcomes

MaxRetries == 7

BaseDelays ==
    { U64(0), U64(1), U64(150),
      <<40000, 65535, 1, 0>>,       \* carries cross limbs
      <<1, 0, 0, 1024>>,            \* 2^58 + 1: times 32 fits, times 64 does not
      <<0, 0, 0, 2048>>,            \* 2^59: times 32 overflows
      U64Max }

\* a bug: the builder is made once and reused by every attempt
BuildOnceAndSend ==
    /\ rpc = "start"
    /\ builds' = IF attempt = 0 THEN builds + 1 ELSE builds
    /\ sends' = sends + 1
    /\ rpc' = "sending"
    /\ UNCHANGED <<policy, plan, attempt, sleeps, last, result>>
    /\ UNCHANGED notRetry

\* build_request().send(): the factory is called and the request is sent
BuildAndSend ==
    /\ rpc = "start"
    /\ builds' = builds + 1
    /\ sends' = sends + 1
    /\ rpc' = "sending"
    /\ UNCHANGED <<policy, plan, attempt, sleeps, last, result>>
    /\ UNCHANGED notRetry

\* a bug: the budget test is off by one
DecideOffByOne(o) ==
    IF Retryable(o) /\ attempt <= policy.max_retries
    THEN /\ sleeps' = Append(sleeps, delay_for_attempt(policy, attempt))
         /\ rpc' = "sleeping"
         /\ result' = result
    ELSE /\ rpc' = "done"
         /\ result' = [ok |-> o.kind = "status", val |-> o.val]
         /\ sleeps' = sleeps

\* what send_with_retry does with the outcome o of this attempt
Decide(o) ==
    IF Retryable(o) /\ attempt < policy.max_retries
    THEN /\ sleeps' = Append(sleeps, delay_for_attempt(policy, attempt))
         /\ rpc' = "sleeping"
         /\ result' = result
    ELSE /\ rpc' = "done"
         /\ result' = [ok |-> o.kind = "status", val |-> o.val]
         /\ sleeps' = sleeps

\* .await of the send resolves: Ok(response) or Err(error)
Receive ==
    /\ rpc = "sending"
    /\ \E o \in Outcomes :
          /\ IF sends <= plan.failures THEN o \in RetryableOutcomes ELSE o = plan.final
          /\ last' = o
          /\ Decide(o)
    /\ UNCHANGED <<policy, plan, attempt, builds, sends>>
    /\ UNCHANGED notRetry

\* the sleep ends: attempt += 1; continue
Wake ==
    /\ rpc = "sleeping"
    /\ attempt' = attempt + 1
    /\ rpc' = "start"
    /\ UNCHANGED <<policy, plan, builds, sends, sleeps, last, result>>
    /\ UNCHANGED notRetry


(***************************************************************************)
(* providers/registry.rs.  A string is a sequence of one-character         *)
(* strings; an Option is a sequence of length 0 (None) or 1 (Some).        *)
(***************************************************************************)
NoneOpt == <<>>
Some(x) == <<x>>

all_kinds ==
    <<"OpenAi", "Anthropic", "Gemini", "Kimi", "OpenRouter", "VercelAiGateway", "Groq", "DeepSeek", "XAi", "Mistral", "Cohere", "AzureOpenAi", "AwsBedrock", "VertexAi">>

ProviderKind == {all_kinds[i] : i \in 1..Len(all_kinds)}

id(kind) ==
    CASE kind = "OpenAi" -> <<"o", "p", "e", "n", "a", "i">>
      [] kind = "Anthropic" -> <<"a", "n", "t", "h", "r", "o", "p", "i", "c">>
      [] kind = "Gemini" -> <<"g", "e", "m", "i", "n", "i">>
      [] kind = "Kimi" -> <<"k", "i", "m", "i">>
      [] kind = "OpenRouter" -> <<"o", "p", "e", "n", "r", "o", "u", "t", "e", "r">>
      [] kind = "VercelAiGateway" -> <<"v", "e", "r", "c", "e", "l">>
      [] kind = "Groq" -> <<"g", "r", "o", "q">>
      [] kind = "DeepSeek" -> <<"d", "e", "e", "p", "s", "e", "e", "k">>
      [] kind = "XAi" -> <<"x", "a", "i">>
      [] kind = "Mistral" -> <<"m", "i", "s", "t", "r", "a", "l">>
      [] kind = "Cohere" -> <<"c", "o", "h", "e", "r", "e">>
      [] kind = "AzureOpenAi" -> <<"a", "z", "u", "r", "e">>
      [] kind = "AwsBedrock" -> <<"b", "e", "d", "r", "o", "c", "k">>
      [] kind = "VertexAi" -> <<"v", "e", "r", "t", "e", "x">>

UpperCase == <<"A", "B", "C", "D", "E", "F", "G", "H", "I", "J", "K", "L", "M", "N", "O", "P", "Q", "R", "S", "T", "U", "V", "W", "X", "Y", "Z">>
LowerCase == <<"a", "b", "c", "d", "e", "f", "g", "h", "i", "j", "k", "l", "m", "n", "o", "p", "q", "r", "s", "t", "u", "v", "w", "x", "y", "z">>

\* u8::to_ascii_lowercase: only A-Z change
lower_char(c) ==
    IF \E i \in 1..26 : UpperCase[i] = c
    THEN LowerCase[CHOOSE i \in 1..26 : UpperCase[i] = c]
    ELSE c

to_ascii_lowercase(s) == [i \in 1..Len(s) |-> lower_char(s[i])]

starts_with(s, p) == Len(s) >= Len(p) /\ SubSeq(s, 1, Len(p)) = p

strip_prefix(s, p) ==
    IF starts_with(s, p) THEN Some(SubSeq(s, Len(p) + 1, Len(s))) ELSE NoneOpt

\* the prefix tests of resolve_model, in the order of the code
prefix_table ==
    << <<<<"o", "p", "e", "n", "a", "i", "/">>, "OpenAi">>,
       <<<<"a", "n", "t", "h", "r", "o", "p", "i", "c", "/">>, "Anthropic">>,
       <<<<"g", "e", "m", "i", "n", "i", "/">>, "Gemini">>,
       <<<<"k", "i", "m", "i", "/">>, "Kimi">>,
       <<<<"o", "p", "e", "n", "r", "o", "u", "t", "e", "r", "/">>, "OpenRouter">>,
       <<<<"v", "e", "r", "c", "e", "l", "/">>, "VercelAiGateway">>,
       <<<<"g", "r", "o", "q", "/">>, "Groq">>,
       <<<<"d", "e", "e", "p", "s", "e", "e", "k", "/">>, "DeepSeek">>,
       <<<<"x", "a", "i", "/">>, "XAi">>,
       <<<<"m", "i", "s", "t", "r", "a", "l", "/">>, "Mistral">>,
       <<<<"c", "o", "h", "e", "r", "e", "/">>, "Cohere">>,
       <<<<"a", "z", "u", "r", "e", "/">>, "AzureOpenAi">>,
       <<<<"b", "e", "d", "r", "o", "c", "k", "/">>, "AwsBedrock">>,
       <<<<"v", "e", "r", "t", "e", "x", "/">>, "VertexAi">> >>

\* the heuristic tests of resolve_model, in the order of the code
heuristic_table ==
    << <<<<"c", "l", "a", "u", "d", "e">>, "Anthropic">>,
       <<<<"g", "e", "m", "i", "n", "i">>, "Gemini">>,
       <<<<"k", "i", "m", "i">>, "Kimi">>,
       <<<<"d", "e", "e", "p", "s", "e", "e", "k">>, "DeepSeek">>,
       <<<<"g", "r", "o", "k">>, "XAi">>,
       <<<<"m", "i", "s", "t", "r", "a", "l">>, "Mistral">>,
       <<<<"m", "i", "n", "i", "s", "t", "r", "a", "l">>, "Mistral">>,
       <<<<"c", "o", "d", "e", "s", "t", "r", "a", "l">>, "Mistral">>,
       <<<<"c", "o", "m", "m", "a", "n", "d">>, "Cohere">> >>

\* the first entry of `table` from index i on whose prefix starts s, or 0
RECURSIVE first_match(_, _, _)
first_match(table, s, i) ==
    IF i > Len(table) THEN 0
    ELSE IF starts_with(s, table[i][1]) THEN i
    ELSE first_match(table, s, i + 1)

\* a bug: the last provider of the enumeration has no prefix branch
resolve_prefixed_short(m) ==
    LET i == first_match(SubSeq(prefix_table, 1, Len(prefix_table) - 1), m, 1)
    IN  IF i = 0 THEN NoneOpt
        ELSE Some(<<prefix_table[i][2], strip_prefix(m, prefix_table[i][1])[1]>>)

\* resolve_model, the strip_prefix chain: Some((kind, stripped)) or None
resolve_prefixed(m) ==
    LET i == first_match(prefix_table, m, 1)
    IN  IF i = 0 THEN NoneOpt
        ELSE Some(<<prefix_table[i][2], strip_prefix(m, prefix_table[i][1])[1]>>)

\* a bug: the heuristics are tested against the model as given
resolve_heuristic_cased(m) ==
    LET i == first_match(heuristic_table, m, 1)
    IN  IF i = 0 THEN <<"OpenAi", m>>
        ELSE <<heuristic_table[i][2], m>>

\* resolve_model, the heuristics on the lowercased model and the fallback
resolve_heuristic(m) ==
    LET lower == to_ascii_lowercase(m)
        i == first_match(heuristic_table, lower, 1)
    IN  IF i = 0 THEN <<"OpenAi", m>>
        ELSE <<heuristic_table[i][2], m>>

\* a bug: the heuristics are tried before the provider prefixes
resolve_heuristic_first(m) ==
    IF resolve_heuristic(m)[1] # "OpenAi" \/ resolve_prefixed(m) = NoneOpt
    THEN resolve_heuristic(m)
    ELSE resolve_prefixed(m)[1]

resolve_model(m) ==
    IF resolve_prefixed(m) # NoneOpt
    THEN resolve_prefixed(m)[1]
    ELSE resolve_heuristic(m)

MaxTokens == 2

\* the pieces model strings are made of
Tokens ==
    {id(k) \o <<"/">> : k \in ProviderKind}
    \cup { <<"c", "l", "a", "u", "d", "e">>,
           <<"G", "E", "M", "I", "N", "I">>,
           <<"K", "i", "m", "i">>,
           <<"d", "e", "e", "p", "s", "e", "e", "k">>,
           <<"g", "r", "o", "k">>,
           <<"m", "i", "s", "t", "r", "a", "l">>,
           <<"M", "i", "n", "i", "s", "t", "r", "a", "l">>,
           <<"c", "o", "d", "e", "s", "t", "r", "a", "l">>,
           <<"c", "o", "m", "m", "a", "n", "d">>,
           <<"g", "p", "t">>,
           <<"O", "p", "e", "n", "A", "I", "/">>,
           <<"x">> }

RECURSIVE Concat(_)
Concat(ts) == IF ts = <<>> THEN <<>> ELSE Head(ts) \o Concat(Tail(ts))

ModelStrings == {Concat(ts) : ts \in UNION {[1..n -> Tokens] : n \in 0..MaxTokens}}

\* let (kind, upstream_model) = ProviderKind::resolve_model(&model);
Resolve ==
    /\ route = NoneOpt
    /\ route' = Some(resolve_model(model))
    /\ UNCHANGED model
    /\ UNCHANGED notRoute


(***************************************************************************)
(* error.rs: Result values.  Ok(x), or Err with a GatewayError kind and    *)
(* its message.                                                            *)
(***************************************************************************)
Ok(x) == [ok |-> TRUE, val |-> x]
Err(kind, msg) == [ok |-> FALSE, val |-> <<kind, msg>>]
Unauthorized(msg) == Err("Unauthorized", msg)
BadRequest(msg) == Err("BadRequest", msg)
Unit == <<>>

(***************************************************************************)
(* config.rs: the part of Config that auth.rs reads.  gateway_api_keys is  *)
(* a sequence of tokens; api_keys maps each provider to its Option key.    *)
(***************************************************************************)
\* client tokens and allow-list entries
T1 == <<"t", "1">>
T2 == <<"t", "2">>
T3 == <<"t", "3">>

\* the key configured for a provider, when one is: <PROVIDER>_API_KEY
ProviderKey(kind) == <<"s", "k", "-">> \o id(kind)

AllowLists == {<<>>, <<T1>>, <<T1, T2>>}

\* which providers have a key: none, one, or all of them
ConfiguredSets == {{}} \cup {{k} : k \in ProviderKind} \cup {ProviderKind}

Configs ==
    { [gateway_api_keys |-> a,
       api_keys |-> [k \in ProviderKind |->
                        IF k \in c THEN Some(ProviderKey(k)) ELSE NoneOpt]] :
      a \in AllowLists, c \in ConfiguredSets }

(***************************************************************************)
(* auth.rs                                                                 *)
(***************************************************************************)
\* a byte that HeaderValue::to_str rejects
OpaqueByte == "0x80"

to_str(value) ==
    IF \E i \in 1..Len(value) : value[i] = OpaqueByte THEN NoneOpt ELSE Some(value)

is_whitespace(c) == c \in {" ", "\t", "\n", "\r"}

\* str::trim().is_empty()
trim_is_empty(s) == \A i \in 1..Len(s) : is_whitespace(s[i])

\* a bug: the check for an empty token is left out
extract_bearer_unchecked(headers) ==
    IF headers = NoneOpt
    THEN Unauthorized("Missing authorization header")
    ELSE IF to_str(headers[1]) = NoneOpt
    THEN Unauthorized("Invalid authorization header")
    ELSE LET token == strip_prefix(to_str(headers[1])[1], <<"B", "e", "a", "r", "e", "r", " ">>)
         IN  IF token = NoneOpt
             THEN Unauthorized("Authorization must use Bearer token")
             ELSE Ok(token[1])

\* headers: the Authorization header's value, as an Option
extract_bearer(headers) ==
    IF headers = NoneOpt
    THEN Unauthorized("Missing authorization header")
    ELSE IF to_str(headers[1]) = NoneOpt
    THEN Unauthorized("Invalid authorization header")
    ELSE LET token == strip_prefix(to_str(headers[1])[1], <<"B", "e", "a", "r", "e", "r", " ">>)
         IN  IF token = NoneOpt
             THEN Unauthorized("Authorization must use Bearer token")
             ELSE IF trim_is_empty(token[1])
             THEN Unauthorized("Bearer token is empty")
             ELSE Ok(token[1])

\* a bug: an empty allow-list rejects every token
validate_empty_rejects(cfg, token) ==
    IF \E i \in 1..Len(cfg.gateway_api_keys) : cfg.gateway_api_keys[i] = token
    THEN Ok(Unit)
    ELSE Unauthorized("Invalid gateway API key")

validate_gateway_key(cfg, token) ==
    IF cfg.gateway_api_keys = <<>>
    THEN Ok(Unit)
    ELSE LET is_allowed ==
                \E i \in 1..Len(cfg.gateway_api_keys) : cfg.gateway_api_keys[i] = token
         IN  IF is_allowed THEN Ok(Unit)
             ELSE Unauthorized("Invalid gateway API key")

\* a bug: the client token wins over the configured key
resolve_token_first(cfg, token, provider) ==
    IF ~validate_gateway_key(cfg, token).ok
    THEN validate_gateway_key(cfg, token)
    ELSE Ok(token)

\* a bug: the key is resolved for a token that was not validated
resolve_unvalidated(cfg, token, provider) ==
    LET configured == cfg.api_keys[provider]
    IN  Ok(IF configured # NoneOpt THEN configured[1] ELSE token)

resolve_provider_api_key(cfg, token, provider) ==
    IF ~validate_gateway_key(cfg, token).ok
    THEN validate_gateway_key(cfg, token)
    ELSE LET configured == cfg.api_keys[provider]
         IN  Ok(IF configured # NoneOpt THEN configured[1] ELSE token)

(***************************************************************************)
(* Credential resolution for two client tokens under one configuration     *)
(***************************************************************************)
ClientTokens == {T1, T2, T3, <<"t", "1", " ">>}

\* resolve_provider_api_key(config, token, provider) for each of the two tokens
ResolveBoth ==
    /\ creds = NoneOpt
    /\ creds' = Some(<<resolve_provider_api_key(config, probe.t1, probe.provider),
                       resolve_provider_api_key(config, probe.t2, probe.provider)>>)
    /\ UNCHANGED <<config, probe>>
    /\ UNCHANGED notCred

\* ProviderKind::parse: the lowercased value against the names and aliases
parse_table ==
    << <<<<"o", "p", "e", "n", "a", "i">>, "OpenAi">>,
       <<<<"a", "n", "t", "h", "r", "o", "p", "i", "c">>, "Anthropic">>,
       <<<<"g", "e", "m", "i", "n", "i">>, "Gemini">>,
       <<<<"k", "i", "m", "i">>, "Kimi">>,
       <<<<"o", "p", "e", "n", "r", "o", "u", "t", "e", "r">>, "OpenRouter">>,
       <<<<"v", "e", "r", "c", "e", "l">>, "VercelAiGateway">>,
       <<<<"v", "e", "r", "c", "e", "l", "-", "a", "i", "-", "g", "a", "t", "e", "w", "a", "y">>, "VercelAiGateway">>,
       <<<<"g", "r", "o", "q">>, "Groq">>,
       <<<<"d", "e", "e", "p", "s", "e", "e", "k">>, "DeepSeek">>,
       <<<<"x", "a", "i">>, "XAi">>,
       <<<<"m", "i", "s", "t", "r", "a", "l">>, "Mistral">>,
       <<<<"c", "o", "h", "e", "r", "e">>, "Cohere">>,
       <<<<"a", "z", "u", "r", "e">>, "AzureOpenAi">>,
       <<<<"a", "z", "u", "r", "e", "-", "o", "p", "e", "n", "a", "i">>, "AzureOpenAi">>,
       <<<<"b", "e", "d", "r", "o", "c", "k">>, "AwsBedrock">>,
       <<<<"a", "w", "s", "-", "b", "e", "d", "r", "o", "c", "k">>, "AwsBedrock">>,
       <<<<"v", "e", "r", "t", "e", "x">>, "VertexAi">>,
       <<<<"v", "e", "r", "t", "e", "x", "-", "a", "i">>, "VertexAi">> >>

parse(value) ==
    LET l == to_ascii_lowercase(value)
    IN  IF \E i \in 1..Len(parse_table) : parse_table[i][1] = l
        THEN Some(parse_table[CHOOSE i \in 1..Len(parse_table) : parse_table[i][1] = l][2])
        ELSE NoneOpt

\* ProviderRegistry::all: the providers in the order of the vec! literal
registry_all ==
    <<"OpenAi", "Anthropic", "Gemini", "Kimi", "OpenRouter", "VercelAiGateway", "Groq",
      "DeepSeek", "XAi", "Mistral", "Cohere", "AzureOpenAi", "AwsBedrock", "VertexAi">>

(***************************************************************************)
(* serde_json::Value, as a pair of a tag and the value                     *)
(***************************************************************************)
JNull == <<"null", 0>>
JBool(b) == <<"bool", b>>
JNum(n) == <<"number", n>>
JStr(s) == <<"string", s>>
JArr(a) == <<"array", a>>
JObj(f) == <<"object", f>>

\* Value::get(key) with a string key
get(value, key) ==
    IF value[1] = "object" /\ key \in DOMAIN value[2] THEN Some(value[2][key]) ELSE NoneOpt

as_str(value) == IF value[1] = "string" THEN Some(value[2]) ELSE NoneOpt
as_array(value) == IF value[1] = "array" THEN Some(value[2]) ELSE NoneOpt
as_bool(value) == IF value[1] = "bool" THEN Some(value[2]) ELSE NoneOpt

\* Option::and_then for the three accessors
get_str(value, key) ==
    IF get(value, key) = NoneOpt THEN NoneOpt ELSE as_str(get(value, key)[1])
get_array(value, key) ==
    IF get(value, key) = NoneOpt THEN NoneOpt ELSE as_array(get(value, key)[1])
get_bool(value, key) ==
    IF get(value, key) = NoneOpt THEN NoneOpt ELSE as_bool(get(value, key)[1])

\* a bug: the object is rebuilt from the one key
set_alone(value, key, x) == JObj([k \in {key} |-> x])

\* value[key] = x on an object
set(value, key, x) ==
    JObj([k \in DOMAIN value[2] \cup {key} |-> IF k = key THEN x ELSE value[2][k]])

(***************************************************************************)
(* http/responses.rs: the request build                                    *)
(***************************************************************************)
RECURSIVE join(_, _)
join(strs, sep) ==
    IF strs = <<>> THEN <<>>
    ELSE IF Len(strs) = 1 THEN strs[1]
    ELSE strs[1] \o sep \o join(Tail(strs), sep)

\* the closure of extract_text's filter_map
item_text(item) ==
    IF as_str(item) # NoneOpt THEN as_str(item)
    ELSE IF get_str(item, "type") = Some(<<"t", "e", "x", "t">>) THEN get_str(item, "text")
    ELSE IF get_str(item, "type") = Some(<<"o", "u", "t", "p", "u", "t", "_", "t", "e", "x", "t">>) THEN get_str(item, "text")
    ELSE get_str(item, "text")

RECURSIVE filter_map_text(_)
filter_map_text(items) ==
    IF items = <<>> THEN <<>>
    ELSE (IF item_text(Head(items)) = NoneOpt THEN <<>> ELSE <<item_text(Head(items))[1]>>)
         \o filter_map_text(Tail(items))

extract_text(value) ==
    IF value[1] = "string" THEN value[2]
    ELSE IF value[1] = "array" THEN join(filter_map_text(value[2]), <<"\n">>)
    ELSE <<>>

Message(role, content) == JObj([role |-> JStr(role), content |-> JStr(content)])

\* the for loop of to_messages_from_input
RECURSIVE input_messages(_)
input_messages(entries) ==
    IF entries = <<>> THEN <<>>
    ELSE LET entry == Head(entries)
             role == get_str(entry, "role")
             content == IF get(entry, "content") = NoneOpt THEN <<>>
                        ELSE extract_text(get(entry, "content")[1])
             text == get_str(entry, "text")
         IN  (IF role # NoneOpt
              THEN (IF content = <<>> THEN <<>> ELSE <<Message(role[1], content)>>)
              ELSE IF text # NoneOpt
              THEN <<Message(<<"u", "s", "e", "r">>, text[1])>>
              ELSE <<>>)
             \o input_messages(Tail(entries))

\* a bug: an array that gives no message is passed on
to_messages_unchecked(input) ==
    IF input[1] = "string"
    THEN Ok(JArr(<<Message(<<"u", "s", "e", "r">>, input[2])>>))
    ELSE IF input[1] = "array"
    THEN IF input[2] = <<>>
         THEN BadRequest("input array must contain at least one entry")
         ELSE Ok(JArr(input_messages(input[2])))
    ELSE BadRequest("input must be a string or array")

to_messages_from_input(input) ==
    IF input[1] = "string"
    THEN Ok(JArr(<<Message(<<"u", "s", "e", "r">>, input[2])>>))
    ELSE IF input[1] = "array"
    THEN IF input[2] = <<>>
         THEN BadRequest("input array must contain at least one entry")
         ELSE IF input_messages(input[2]) = <<>>
         THEN BadRequest("Unable to extract messages from input")
         ELSE Ok(JArr(input_messages(input[2])))
    ELSE BadRequest("input must be a string or array")

\* copy payload[from] to request[to] when payload has it
carry_field(request, payload, from, to) ==
    IF get(payload, from) = NoneOpt THEN request ELSE set(request, to, get(payload, from)[1])

build_chat_request(payload) ==
    IF get_str(payload, "model") = NoneOpt
    THEN BadRequest("The request body must include a model")
    ELSE LET stream == IF get_bool(payload, "stream") = NoneOpt THEN FALSE
                       ELSE get_bool(payload, "stream")[1]
             messages ==
                 IF get_array(payload, "messages") # NoneOpt
                 THEN Ok(JArr(get_array(payload, "messages")[1]))
                 ELSE IF get(payload, "input") = NoneOpt
                 THEN BadRequest("The request body must include input or messages")
                 ELSE to_messages_from_input(get(payload, "input")[1])
         IN  IF ~messages.ok THEN messages
             ELSE LET r0 == JObj([model |-> JStr(get_str(payload, "model")[1]),
                                  messages |-> messages.val,
                                  stream |-> JBool(stream)])
                      r1 == carry_field(r0, payload, "temperature", "temperature")
                      r2 == carry_field(r1, payload, "top_p", "top_p")
                      r3 == carry_field(r2, payload, "max_output_tokens", "max_tokens")
                      r4 == carry_field(r3, payload, "max_tokens", "max_tokens")
                      r5 == carry_field(r4, payload, "max_completion_tokens",
                                  "max_completion_tokens")
                  IN  Ok(r5)

(***************************************************************************)
(* http/handlers.rs                                                        *)
(***************************************************************************)
validate_chat_completion_request(payload) ==
    IF get_str(payload, "model") = NoneOpt
    THEN BadRequest("The request body must include a model")
    ELSE IF get_array(payload, "messages") = NoneOpt
    THEN BadRequest("The request body must include messages")
    ELSE Ok(get_str(payload, "model")[1])


\* the body that axum's Json extractor rejected: Err(JsonRejection)
Rejected == <<"rejected", 0>>

\* what an adapter call can return to the handler
AdapterErrors ==
    { Err("BadRequest", "adapter"), Err("Unauthorized", "adapter"),
      Err("Upstream", "adapter"), Err("Transport", "adapter"),
      Err("Internal", "adapter") }

ModelEntry(kind) == JObj([id |-> JStr(id(kind)), object |-> JStr(<<"m", "o", "d", "e", "l">>)])

ModelList(entries) == JObj([object |-> JStr(<<"l", "i", "s", "t">>), data |-> JArr(entries)])

MaxData == 2

\* a bug: Kimi's fetch_models asks its upstream as the others do
FetchOutcomesKimiAsks(kind, room) ==
    (IF room THEN {Ok(ModelList(<<ModelEntry(kind)>>))} ELSE {})
    \cup {Ok(JObj([object |-> JStr(<<"e", "r", "r", "o", "r">>)]))}
    \cup {Err("Upstream", "adapter"), Err("Transport", "adapter")}

\* fetch_models of a provider: Kimi answers with its one synthetic entry and
\* sends nothing upstream (sdk/kimi.rs:58); the others answer with a list, with
\* JSON that has no data array, or with an error.  `room` bounds the lists.
FetchOutcomes(kind, room) ==
    IF kind = "Kimi"
    THEN {Ok(ModelList(<<ModelEntry("Kimi")>>))}
    ELSE (IF room THEN {Ok(ModelList(<<ModelEntry(kind)>>))} ELSE {})
         \cup {Ok(JObj([object |-> JStr(<<"e", "r", "r", "o", "r">>)]))}
         \cup {Err("Upstream", "adapter"), Err("Transport", "adapter")}

\* the token the handler extracted from this request
Token == extract_bearer(req.authorization)

\* Query<ModelsQuery>: the pairs of the query string are deserialized into
\* ModelsQuery {provider: Option<String>} before the handler's body runs; keys
\* the struct does not name are ignored, a repeated provider key is refused
\* and the extractor answers for the handler
deserialize_query(pairs) ==
    LET values == SelectSeq(pairs, LAMBDA p : p[1] = "provider")
    IN  IF Len(values) > 1
        THEN Err("QueryRejection", "Failed to deserialize query string")
        ELSE IF Len(values) = 1 THEN Ok(Some(values[1][2]))
        ELSE Ok(NoneOpt)

Query == deserialize_query(req.query)

Reply(r) ==
    /\ hpc' = "done"
    /\ resp' = Some(r)

Call(kind, fn, api_key, request) ==
    calls' = Append(calls, [kind |-> kind, fn |-> fn, api_key |-> api_key,
                            request |-> request])

\* one pass of list_models' for loop up to its await: the key for provider
\* number i is resolved and fetch_models is called
FetchStep(i, d, fe) ==
    LET kind == registry_all[i]
        api_key == resolve_provider_api_key(config, Token.val, kind)
    IN  IF ~api_key.ok
        THEN Reply(api_key) /\ UNCHANGED <<calls, idx, data, first_error>>
        ELSE /\ Call(kind, "fetch_models", api_key.val, JNull)
             /\ hpc' = "fetch_all"
             /\ idx' = i
             /\ data' = d
             /\ first_error' = fe
             /\ UNCHANGED resp

\* list_models up to its first await
ListModels ==
    /\ hpc = "recv"
    /\ req.op = "list_models"
    /\ IF ~Query.ok
       THEN Reply(Query) /\ UNCHANGED <<calls, idx, data, first_error>>
       ELSE IF ~Token.ok
       THEN Reply(Token) /\ UNCHANGED <<calls, idx, data, first_error>>
       ELSE IF ~validate_gateway_key(config, Token.val).ok
       THEN /\ Reply(validate_gateway_key(config, Token.val))
            /\ UNCHANGED <<calls, idx, data, first_error>>
       ELSE IF Query.val # NoneOpt
       THEN LET kind == parse(Query.val[1])
            IN  IF kind = NoneOpt
                THEN /\ Reply(BadRequest("provider must be one of"))
                     /\ UNCHANGED <<calls, idx, data, first_error>>
                ELSE LET api_key == resolve_provider_api_key(config, Token.val, kind[1])
                     IN  IF ~api_key.ok
                         THEN Reply(api_key) /\ UNCHANGED <<calls, idx, data, first_error>>
                         ELSE /\ Call(kind[1], "fetch_models", api_key.val, JNull)
                              /\ hpc' = "single"
                              /\ UNCHANGED <<idx, data, first_error, resp>>
       ELSE FetchStep(1, <<>>, NoneOpt)
    /\ UNCHANGED <<config, req, fetched>>
    /\ UNCHANGED notHandler

\* list_models with a provider query: fetch_models returns
FetchOneReturns ==
    /\ hpc = "single"
    /\ \E out \in FetchOutcomes(calls[Len(calls)].kind, TRUE) :
          Reply(out) /\ fetched' = Some(out)
    /\ UNCHANGED <<config, req, calls, idx, data, first_error>>
    /\ UNCHANGED notHandler

\* a bug: every error replaces the retained one
FetchAllKeepsLast ==
    /\ hpc = "fetch_all"
    /\ \E out \in FetchOutcomes(registry_all[idx], Len(data) < MaxData) :
          LET entries == IF out.ok THEN get_array(out.val, "data") ELSE NoneOpt
              d == IF entries # NoneOpt THEN data \o entries[1] ELSE data
              fe == IF ~out.ok THEN Some(out) ELSE first_error
          IN  /\ fetched' = Some(out)
              /\ IF idx < Len(registry_all)
                 THEN FetchStep(idx + 1, d, fe)
                 ELSE /\ IF d = <<>>
                         THEN Reply(IF fe # NoneOpt THEN fe[1]
                                    ELSE BadRequest("No models available for the provided API key"))
                         ELSE Reply(Ok(ModelList(d)))
                      /\ data' = d
                      /\ first_error' = fe
                      /\ UNCHANGED <<calls, idx>>
    /\ UNCHANGED <<config, req>>
    /\ UNCHANGED notHandler

\* list_models without one: a fetch_models of the loop returns, and the loop
\* goes on to the next provider or the handler answers
FetchAllReturns ==
    /\ hpc = "fetch_all"
    /\ \E out \in FetchOutcomes(registry_all[idx], Len(data) < MaxData) :
          LET entries == IF out.ok THEN get_array(out.val, "data") ELSE NoneOpt
              d == IF entries # NoneOpt THEN data \o entries[1] ELSE data
              fe == IF ~out.ok /\ first_error = NoneOpt THEN Some(out) ELSE first_error
          IN  /\ fetched' = Some(out)
              /\ IF idx < Len(registry_all)
                 THEN FetchStep(idx + 1, d, fe)
                 ELSE /\ IF d = <<>>
                         THEN Reply(IF fe # NoneOpt THEN fe[1]
                                    ELSE BadRequest("No models available for the provided API key"))
                         ELSE Reply(Ok(ModelList(d)))
                      /\ data' = d
                      /\ first_error' = fe
                      /\ UNCHANGED <<calls, idx>>
    /\ UNCHANGED <<config, req>>
    /\ UNCHANGED notHandler

\* the rest of chat_completions and responses once the chat request is known
Dispatch(chat_payload) ==
    LET m == validate_chat_completion_request(chat_payload)
    IN  IF ~m.ok
        THEN Reply(m) /\ UNCHANGED calls
        ELSE LET r == resolve_model(m.val)
                 kind == r[1]
                 routed == set(chat_payload, "model", JStr(r[2]))
                 api_key == resolve_provider_api_key(config, Token.val, kind)
                 stream == IF get_bool(routed, "stream") = NoneOpt THEN FALSE
                           ELSE get_bool(routed, "stream")[1]
             IN  IF ~api_key.ok
                 THEN Reply(api_key) /\ UNCHANGED calls
                 ELSE /\ Call(kind, IF stream THEN "stream_text" ELSE "generate_text",
                              api_key.val, routed)
                      /\ hpc' = "adapter"
                      /\ UNCHANGED resp

\* chat_completions up to its await
ChatCompletions ==
    /\ hpc = "recv"
    /\ req.op = "chat_completions"
    /\ IF ~Token.ok
       THEN Reply(Token) /\ UNCHANGED calls
       ELSE IF req.payload = Rejected
       THEN Reply(BadRequest("Invalid JSON request body")) /\ UNCHANGED calls
       ELSE Dispatch(req.payload)
    /\ UNCHANGED <<config, req, idx, data, first_error, fetched>>
    /\ UNCHANGED notHandler

\* responses up to its await
Responses ==
    /\ hpc = "recv"
    /\ req.op = "responses"
    /\ IF ~Token.ok
       THEN Reply(Token) /\ UNCHANGED calls
       ELSE IF req.payload = Rejected
       THEN Reply(BadRequest("Invalid JSON request body")) /\ UNCHANGED calls
       ELSE LET chat_payload == build_chat_request(req.payload)
            IN  IF ~chat_payload.ok
                THEN Reply(chat_payload) /\ UNCHANGED calls
                ELSE Dispatch(chat_payload.val)
    /\ UNCHANGED <<config, req, idx, data, first_error, fetched>>
    /\ UNCHANGED notHandler

\* generate_text or stream_text returns: the JSON body or the SSE response
\* is sent, or the adapter's error
AdapterReturns ==
    /\ hpc = "adapter"
    /\ \/ Reply(Ok(IF calls[Len(calls)].fn = "stream_text" THEN <<"sse">> ELSE <<"json">>))
       \/ \E e \in AdapterErrors : Reply(e)
    /\ UNCHANGED <<config, req, calls, idx, data, first_error, fetched>>
    /\ UNCHANGED notHandler

(***************************************************************************)
(* The requests                                                            *)
(***************************************************************************)
Bearer(token) == <<"B", "e", "a", "r", "e", "r", " ">> \o token

AuthHeaders ==
    {NoneOpt} \cup
    { Some(Bearer(T1)), Some(Bearer(T2)), Some(Bearer(T3)),
      Some(Bearer(<<>>)), Some(Bearer(<<" ", "\t">>)), Some(Bearer(T1 \o <<" ">>)),
      Some(<<"B", "a", "s", "i", "c", " ">> \o T1), Some(<<"b", "e", "a", "r", "e", "r", " ">> \o T1),
      Some(Bearer(<<OpaqueByte>>)) }

Provider(value) == <<"provider", value>>

\* query strings, as their key=value pairs in order
Queries ==
    { <<>>,
      <<Provider(<<"A", "n", "t", "h", "r", "o", "p", "i", "c">>)>>,
      <<Provider(<<"a", "z", "u", "r", "e", "-", "o", "p", "e", "n", "a", "i">>)>>,
      <<Provider(<<"k", "i", "m", "i">>)>>,
      <<Provider(<<"b", "o", "g", "u", "s">>)>>,
      <<<<"limit", <<"5">>>>>>,
      <<Provider(<<"k", "i", "m", "i">>), Provider(<<"g", "r", "o", "q">>)>> }

Absent == <<"absent", 0>>

\* the JSON object with the given fields, those that are Absent left out
Object(fields) == JObj([k \in {x \in DOMAIN fields : fields[x] # Absent} |-> fields[k]])

UserHi == Message(<<"u", "s", "e", "r">>, <<"h", "i">>)

ModelValues ==
    {Absent, JNum(7), JStr(<<"g", "p", "t">>), JStr(id("Anthropic") \o <<"/", "c", "l", "a", "u", "d", "e">>)}

ChatBodies ==
    { Object([model |-> m, messages |-> ms, stream |-> st, metadata |-> md]) :
        m \in ModelValues,
        ms \in {Absent, JStr(<<"h", "i">>), JArr(<<UserHi>>)},
        st \in {Absent, JBool(TRUE), JBool(FALSE)},
        md \in {Absent, JObj([trace |-> JNum(1)])} }
    \cup {JArr(<<>>)}

InputValues ==
    { Absent, JStr(<<"h", "i">>), JNum(3), JArr(<<>>),
      JArr(<<JObj([role |-> JStr(<<"u", "s", "e", "r">>), content |-> JStr(<<"h", "i">>)]),
             JObj([role |-> JStr(<<"a", "s", "s", "i", "s", "t", "a", "n", "t">>),
                   content |-> JArr(<<JStr(<<"a">>), JObj([text |-> JStr(<<"b">>)])>>)])>>),
      JArr(<<JObj([role |-> JStr(<<"u", "s", "e", "r">>), content |-> JStr(<<>>)]),
             JObj([text |-> JStr(<<"y", "o">>)]),
             JObj([role |-> JNum(1), text |-> JStr(<<"k">>)])>>),
      JArr(<<JNum(1), JObj([role |-> JStr(<<"u", "s", "e", "r">>), content |-> JNum(2)])>>) }

ResponsesBodies ==
    { Object([model |-> m, messages |-> ms, input |-> inp, stream |-> st,
              max_output_tokens |-> mo]) :
        m \in {Absent, JStr(<<"g", "p", "t">>), JStr(id("Kimi") \o <<"/", "k", "2">>)},
        ms \in {Absent, JArr(<<UserHi>>)},
        inp \in InputValues,
        st \in {Absent, JBool(TRUE)},
        mo \in {Absent, JNum(64)} }

Requests ==
    { [op |-> "list_models", authorization |-> a, query |-> q, payload |-> JNull] :
        a \in AuthHeaders, q \in Queries }
    \cup
    { [op |-> "chat_completions", authorization |-> a, query |-> <<>>, payload |-> b] :
        a \in AuthHeaders,
        b \in ChatBodies \cup {Rejected} }
    \cup
    { [op |-> "responses", authorization |-> a, query |-> <<>>, payload |-> b] :
        a \in AuthHeaders,
        b \in ResponsesBodies \cup {Rejected} }

(***************************************************************************)
(* sdk/anthropic.rs: the request translation                               *)
(***************************************************************************)
\* Value::as_u64 and Value::as_f64; numbers are integers here, and the
\* negative ones stand for the numbers that are no u64
as_u64(value) == IF value[1] = "number" /\ value[2] >= 0 THEN Some(value[2]) ELSE NoneOpt
as_f64(value) == IF value[1] = "number" THEN Some(value[2]) ELSE NoneOpt

get_u64(value, key) ==
    IF get(value, key) = NoneOpt THEN NoneOpt ELSE as_u64(get(value, key)[1])
get_f64(value, key) ==
    IF get(value, key) = NoneOpt THEN NoneOpt ELSE as_f64(get(value, key)[1])

\* the closure of extract_text_content's filter_map
content_item_text(item) ==
    IF as_str(item) # NoneOpt THEN as_str(item)
    ELSE IF get_str(item, "type") = Some(<<"t", "e", "x", "t">>) THEN get_str(item, "text")
    ELSE get_str(item, "text")

RECURSIVE filter_map_content(_)
filter_map_content(items) ==
    IF items = <<>> THEN <<>>
    ELSE (IF content_item_text(Head(items)) = NoneOpt THEN <<>>
          ELSE <<content_item_text(Head(items))[1]>>)
         \o filter_map_content(Tail(items))

extract_text_content(content) ==
    IF content[1] = "string" THEN content[2]
    ELSE IF content[1] = "array" THEN join(filter_map_content(content[2]), <<"\n">>)
    ELSE <<>>

TextBlock(role, content) ==
    JObj([role |-> JStr(role),
          content |-> JArr(<<JObj([type |-> JStr(<<"t", "e", "x", "t">>),
                                   text |-> JStr(content)])>>)])

System == <<"s", "y", "s", "t", "e", "m">>
User == <<"u", "s", "e", "r">>
Assistant == <<"a", "s", "s", "i", "s", "t", "a", "n", "t">>

\* a bug: a message without a usable text is kept
translate_unfiltered(messages, i, system_messages, anthropic_messages) ==
    <<system_messages,
      [j \in 1..Len(messages) |->
          TextBlock(User, extract_text_content(
              IF get(messages[j], "content") = NoneOpt THEN JNull
              ELSE get(messages[j], "content")[1]))]>>

\* the for loop of to_anthropic_request from message number i on, with the two
\* vectors it pushes to
RECURSIVE translate_messages(_, _, _, _)
translate_messages(messages, i, system_messages, anthropic_messages) ==
    IF i > Len(messages) THEN <<system_messages, anthropic_messages>>
    ELSE LET message == messages[i]
             role == IF get_str(message, "role") = NoneOpt THEN User
                     ELSE get_str(message, "role")[1]
             content == extract_text_content(
                            IF get(message, "content") = NoneOpt THEN JNull
                            ELSE get(message, "content")[1])
         IN  IF trim_is_empty(content)
             THEN translate_messages(messages, i + 1, system_messages, anthropic_messages)
             ELSE IF role = System
             THEN translate_messages(messages, i + 1, Append(system_messages, content),
                                     anthropic_messages)
             ELSE IF role # User /\ role # Assistant
             THEN translate_messages(messages, i + 1, system_messages, anthropic_messages)
             ELSE translate_messages(messages, i + 1, system_messages,
                                     Append(anthropic_messages, TextBlock(role, content)))

\* a bug: max_completion_tokens is looked at first
max_tokens_swapped(request) ==
    IF get_u64(request, "max_completion_tokens") # NoneOpt
    THEN get_u64(request, "max_completion_tokens")[1]
    ELSE IF get_u64(request, "max_tokens") # NoneOpt
    THEN get_u64(request, "max_tokens")[1]
    ELSE 1024

\* request.get("max_tokens")...or_else(max_completion_tokens).unwrap_or(1024)
max_tokens_of(request) ==
    IF get_u64(request, "max_tokens") # NoneOpt
    THEN get_u64(request, "max_tokens")[1]
    ELSE IF get_u64(request, "max_completion_tokens") # NoneOpt
    THEN get_u64(request, "max_completion_tokens")[1]
    ELSE 1024

\* a bug: the system key is always written
with_system_always(body, system_messages) ==
    set(body, "system", JStr(join(system_messages, <<"\n", "\n">>)))

\* if !system_messages.is_empty() { body["system"] = ... }
with_system(body, system_messages) ==
    IF system_messages # <<>>
    THEN set(body, "system", JStr(join(system_messages, <<"\n", "\n">>)))
    ELSE body

\* if let Some(x) = request.get(key).and_then(Value::as_f64) { body[key] = x }
with_number(body, request, key) ==
    IF get_f64(request, key) # NoneOpt THEN set(body, key, JNum(get_f64(request, key)[1]))
    ELSE body

\* a bug: the check for an empty message list is left out
to_anthropic_request_unchecked(request, stream) ==
    LET pair == translate_messages(get_array(request, "messages")[1], 1, <<>>, <<>>)
    IN  Ok(with_system(JObj([model |-> JStr(get_str(request, "model")[1]),
                             messages |-> JArr(pair[2]),
                             max_tokens |-> JNum(max_tokens_of(request)),
                             stream |-> JBool(stream)]), pair[1]))

to_anthropic_request(request, stream) ==
    IF get_str(request, "model") = NoneOpt THEN BadRequest("Missing model")
    ELSE IF get_array(request, "messages") = NoneOpt THEN BadRequest("Missing messages")
    ELSE LET pair == translate_messages(get_array(request, "messages")[1], 1, <<>>, <<>>)
             body == JObj([model |-> JStr(get_str(request, "model")[1]),
                           messages |-> JArr(pair[2]),
                           max_tokens |-> JNum(max_tokens_of(request)),
                           stream |-> JBool(stream)])
         IN  IF pair[2] = <<>>
             THEN BadRequest("At least one user or assistant message is required")
             ELSE Ok(with_system(
                         with_number(with_number(body, request, "temperature"),
                                     request, "top_p"),
                         pair[1]))

\* HeaderValue::from_str refuses control characters
headers(api_key) ==
    IF \E i \in 1..Len(api_key) : api_key[i] \in {"\n", "\r"}
    THEN Unauthorized("Invalid API key")
    ELSE Ok([x_api_key |-> api_key, anthropic_version |-> "2023-06-01"])

\* generate_text and stream_text up to the await of send_with_retry: the body
\* is translated, the headers are built and the POST to /v1/messages is sent
AnthropicCall ==
    /\ apc = "start"
    /\ LET b == to_anthropic_request(acall.request, acall.fn = "stream_text")
       IN  /\ abody' = Some(b)
           /\ IF ~b.ok
              THEN apc' = "done" /\ aresult' = Some(b) /\ UNCHANGED posted
              ELSE IF ~headers(acall.api_key).ok
              THEN apc' = "done" /\ aresult' = Some(headers(acall.api_key))
                   /\ UNCHANGED posted
              ELSE /\ apc' = "sent"
                   /\ posted' = Append(posted, [path |-> "/v1/messages",
                                                headers |-> headers(acall.api_key).val,
                                                json |-> b.val])
                   /\ UNCHANGED aresult
    /\ UNCHANGED acall
    /\ UNCHANGED notAnthropic

\* send_with_retry returns and the call ends with the translated response,
\* the stream, or an error
AnthropicReturns ==
    /\ apc = "sent"
    /\ apc' = "done"
    /\ \E r \in {Ok(<<"completion">>), Err("Upstream", "adapter"),
                 Err("Transport", "adapter"), Err("Internal", "adapter")} :
          aresult' = Some(r)
    /\ UNCHANGED <<acall, abody, posted>>
    /\ UNCHANGED notAnthropic

(***************************************************************************)
(* The requests the handlers hand to the Anthropic adapter: a string       *)
(* model and a messages array (validate_chat_completion_request)           *)
(***************************************************************************)
MaxMessages == 3

Part(text) == JObj([type |-> JStr(<<"t", "e", "x", "t">>), text |-> JStr(text)])

MessageContents ==
    { JStr(<<"h", "i">>),
      JStr(<<" ", "\n">>),
      JArr(<<JStr(<<"a">>), JObj([type |-> JStr(<<"i", "m", "g">>)]), Part(<<"b">>)>>) }

ChatMessages ==
    { JObj([role |-> JStr(r), content |-> c]) :
        r \in {User, Assistant, System, <<"t", "o", "o", "l">>}, c \in MessageContents }
    \cup { JObj([content |-> JStr(<<"h", "i">>)]),
           JObj([role |-> JNum(1), content |-> JStr(<<"h", "i">>)]),
           JObj([role |-> JStr(User)]) }

MessageLists == UNION {[1..n -> ChatMessages] : n \in 0..MaxMessages}

Claude == <<"c", "l", "a", "u", "d", "e">>

TokenLimits ==
    { Object([max_tokens |-> mt, max_completion_tokens |-> mc, temperature |-> t]) :
        mt \in {Absent, JNum(5), JNum(0), JNum(1024), JNum(-1), JStr(<<"7">>)},
        mc \in {Absent, JNum(9), JStr(<<"x">>)},
        t \in {Absent, JNum(1), JStr(<<"h", "o", "t">>)} }

\* the fields of both objects
Merge(a, b) ==
    JObj([k \in DOMAIN a[2] \cup DOMAIN b[2] |-> IF k \in DOMAIN b[2] THEN b[2][k] ELSE a[2][k]])

AnthropicCalls ==
    { [fn |-> f, api_key |-> ProviderKey("Anthropic"),
       request |-> JObj([model |-> JStr(Claude), messages |-> JArr(ms)])] :
        f \in {"generate_text", "stream_text"}, ms \in MessageLists }
    \cup
    { [fn |-> f, api_key |-> k,
       request |-> Merge(JObj([model |-> JStr(Claude), messages |-> JArr(<<UserHi>>)]), l)] :
        f \in {"generate_text", "stream_text"},
        k \in {ProviderKey("Anthropic"), <<"s", "k", "\n", "x">>},
        l \in TokenLimits }

(***************************************************************************)
(* sdk/anthropic.rs: the stream adapter of stream_text.  The upstream      *)
(* bytes are sequences of pieces: a piece is a line feed, a carriage       *)
(* return, a blank, or a word the adapter takes as a unit (a prefix, an    *)
(* event name, a JSON text).                                               *)
(***************************************************************************)
\* str::trim on pieces
RECURSIVE trim_start(_)
trim_start(s) ==
    IF s # <<>> /\ is_whitespace(Head(s)) THEN trim_start(Tail(s)) ELSE s

RECURSIVE trim_end(_)
trim_end(s) ==
    IF s # <<>> /\ is_whitespace(s[Len(s)]) THEN trim_end(SubSeq(s, 1, Len(s) - 1)) ELSE s

trim(s) == trim_end(trim_start(s))

\* the JSON texts of the upstream and the values serde_json reads from them
JsonTexts ==
    [ J_start |-> JObj([type |-> JStr(<<"m", "e", "s", "s", "a", "g", "e", "_", "s", "t", "a", "r", "t">>),
                        message |-> JObj([id |-> JStr(<<"m", "s", "g", "_", "1">>),
                                          model |-> JStr(<<"c", "l", "a", "u", "d", "e", "-", "3">>)])]),
      J_text_He |-> JObj([delta |-> JObj([text |-> JStr(<<"H", "e">>)])]),
      J_text_y |-> JObj([delta |-> JObj([text |-> JStr(<<"y">>)])]),
      J_text_empty |-> JObj([delta |-> JObj([text |-> JStr(<<>>)])]),
      J_stop_max_tokens |-> JObj([delta |-> JObj([stop_reason |-> JStr(<<"m", "a", "x", "_", "t", "o", "k", "e", "n", "s">>)])]),
      J_stop_end_turn |-> JObj([delta |-> JObj([stop_reason |-> JStr(<<"e", "n", "d", "_", "t", "u", "r", "n">>)])]),
      J_empty |-> JObj([k \in {} |-> JNull]) ]

\* the JSON texts of chat.completion.chunk lines and the values serde_json
\* reads from them
ChunkTexts ==
    [ K_role |-> JObj([id |-> JStr(<<"c", "1">>), model |-> JStr(<<"m">>), created |-> JNum(7),
                       choices |-> JArr(<<JObj([delta |-> JObj([role |-> JStr(<<"a", "s", "s", "i", "s", "t", "a", "n", "t">>)]),
                                                finish_reason |-> JNull])>>)]),
      K_He |-> JObj([id |-> JStr(<<"c", "1">>),
                     choices |-> JArr(<<JObj([delta |-> JObj([content |-> JStr(<<"H", "e">>)]),
                                              finish_reason |-> JNull])>>)]),
      K_y |-> JObj([choices |-> JArr(<<JObj([delta |-> JObj([content |-> JStr(<<"y">>)])])>>)]),
      K_stop |-> JObj([id |-> JStr(<<"c", "1">>),
                       choices |-> JArr(<<JObj([delta |-> JObj([k \in {} |-> JNull]),
                                                finish_reason |-> JStr(<<"s", "t", "o", "p">>)])>>)]),
      K_y_stop |-> JObj([choices |-> JArr(<<JObj([delta |-> JObj([content |-> JStr(<<"y">>)]),
                                                  finish_reason |-> JStr(<<"s", "t", "o", "p">>)])>>)]),
      K_usage |-> JObj([id |-> JStr(<<"c", "2">>), choices |-> JArr(<<>>)]) ]

\* the json! of a chat.completion.chunk
chunk_value(mid, at, name, delta, finish) ==
    JObj([id |-> JStr(mid),
          object |-> JStr(<<"c", "h", "a", "t", ".", "c", "o", "m", "p", "l", "e", "t", "i", "o", "n", ".", "c", "h", "u", "n", "k">>),
          created |-> JNum(at),
          model |-> JStr(name),
          choices |-> JArr(<<JObj([index |-> JNum(0), delta |-> delta,
                                   finish_reason |-> finish])>>)])

\* the chunks the stream adapter writes for the upstreams of the model
AdapterChunks ==
    {chunk_value(mid, at, name, d[1], d[2]) :
        mid \in {<<"c", "h", "a", "t", "c", "m", "p", "l", "-", "a", "n", "t", "h", "r", "o", "p", "i", "c">>, <<"m", "s", "g", "_", "1">>, <<"m", "s", "g", "_", "2">>, <<"m", "s", "g", "_", "3">>},
        at \in {0, 1700000000},
        name \in {Claude, <<"c", "l", "a", "u", "d", "e", "-", "3">>, <<"c", "l", "a", "u", "d", "e", "-", "4">>},
        d \in {<<JObj([role |-> JStr(Assistant)]), JNull>>}
              \cup {<<JObj([content |-> JStr(c)]), JNull>> :
                       c \in {<<"H", "e">>, <<"y">>, <<"0xC3", "0xA9">>, <<"U+FFFD", "U+FFFD">>}}
              \cup {<<JObj([k \in {} |-> JNull]), JStr(f)>> :
                       f \in {<<"s", "t", "o", "p">>, <<"l", "e", "n", "g", "t", "h">>, <<"t", "o", "o", "l", "_", "c", "a", "l", "l", "s">>}}}

\* Value's Display, as format!("data: {}", chunk) uses it: the JSON text as
\* one piece
to_string(value) == ToString(value)

\* the texts of the adapter's chunks and the values serde_json reads from them
AdapterChunkTexts == [text \in {to_string(v) : v \in AdapterChunks} |->
                         CHOOSE v \in AdapterChunks : to_string(v) = text]

\* more JSON texts of the upstream: a second message_start, one that names
\* an id and no model, and the stop reason of a tool call
MoreJsonTexts ==
    [ J_start_2 |-> JObj([message |-> JObj([id |-> JStr(<<"m", "s", "g", "_", "2">>), model |-> JStr(<<"c", "l", "a", "u", "d", "e", "-", "4">>)])]),
      J_start_id |-> JObj([message |-> JObj([id |-> JStr(<<"m", "s", "g", "_", "3">>)])]),
      J_stop_tool_use |-> JObj([delta |-> JObj([stop_reason |-> JStr(<<"t", "o", "o", "l", "_", "u", "s", "e">>)])]),
      J_stop_null |-> JObj([delta |-> JObj([stop_reason |-> JNull])]) ]

\* serde_json::from_str::<Value>.  A text is one piece that stands for a
\* whole JSON text or is the text of a chunk of the adapter, or the pieces "J_text(", the characters of a string and
\* ")" for an Anthropic text delta, or "K_content(", the characters and ")"
\* for a chat completion chunk with that content
from_str(text) ==
    IF Len(text) = 1 /\ text[1] \in DOMAIN JsonTexts THEN Some(JsonTexts[text[1]])
    ELSE IF Len(text) = 1 /\ text[1] \in DOMAIN ChunkTexts THEN Some(ChunkTexts[text[1]])
    ELSE IF Len(text) = 1 /\ text[1] \in DOMAIN MoreJsonTexts
    THEN Some(MoreJsonTexts[text[1]])
    ELSE IF Len(text) = 1 /\ text[1] \in DOMAIN AdapterChunkTexts
    THEN Some(AdapterChunkTexts[text[1]])
    ELSE IF Len(text) >= 2 /\ text[1] = "J_text(" /\ text[Len(text)] = ")"
    THEN Some(JObj([delta |-> JObj([text |-> JStr(SubSeq(text, 2, Len(text) - 1))])]))
    ELSE IF Len(text) >= 2 /\ text[1] = "K_content(" /\ text[Len(text)] = ")"
    THEN Some(JObj([choices |->
                      JArr(<<JObj([delta |->
                                     JObj([content |-> JStr(SubSeq(text, 2, Len(text) - 1))])])>>)]))
    ELSE NoneOpt

map_stop_reason(value) ==
    IF value = <<"m", "a", "x", "_", "t", "o", "k", "e", "n", "s">> THEN <<"l", "e", "n", "g", "t", "h">>
    ELSE IF value = <<"t", "o", "o", "l", "_", "u", "s", "e">> THEN <<"t", "o", "o", "l", "_", "c", "a", "l", "l", "s">>
    ELSE <<"s", "t", "o", "p">>

\* data.get(a).and_then(|x| x.get(b)).and_then(Value::as_str)
get_get_str(value, a, b) ==
    IF get(value, a) = NoneOpt THEN NoneOpt ELSE get_str(get(value, a)[1], b)

\* the json! of a chat.completion.chunk with the adapter's current id and model
Chunk(delta, finish) == chunk_value(message_id, created, stream_model, delta, finish)

\* what the byte string literals of the yields end with: a backslash and the
\* letter n, twice
FrameEnd == "\\n\\n"

\* Bytes::from(format!("data: {}\\n\\n", chunk))
Frame(chunk) == <<"data: ", <<"json", chunk>>, FrameEnd>>

\* Bytes::from_static(b"data: [DONE]\\n\\n")
DoneFrame == <<"data: ", <<"text", "[DONE]">>, FrameEnd>>

\* a bug: the content chunk carries the role too
content_chunk_with_role(delta_text) ==
    Chunk(JObj([role |-> JStr(Assistant), content |-> JStr(delta_text)]), JNull)

\* a bug: the final chunk carries no finish_reason
final_chunk_unfinished == Chunk(JObj([k \in {} |-> JNull]), JNull)

\* a bug: the final chunk says "stop" whatever the upstream's stop_reason
final_chunk_always_stop == Chunk(JObj([k \in {} |-> JNull]), JStr(<<"s", "t", "o", "p">>))

role_chunk == Chunk(JObj([role |-> JStr(Assistant)]), JNull)
content_chunk(delta_text) == Chunk(JObj([content |-> JStr(delta_text)]), JNull)
final_chunk == Chunk(JObj([k \in {} |-> JNull]), JStr(finish_reason))

\* the two bytes of a character that UTF-8 writes in two bytes: its lead byte
\* and its continuation byte; every other piece of a chunk is ASCII text
LeadByte == "0xC3"
ContinuationByte == "0xA9"

\* U+FFFD, which String::from_utf8_lossy puts for a byte sequence that is not
\* UTF-8
Replacement == "U+FFFD"

\* a bug: the bytes of a chunk are taken as they are, which holds only when
\* the stream is decoded as a whole
from_utf8_whole(chunk) == chunk

\* String::from_utf8_lossy(&chunk), of one chunk: a lead byte that its
\* continuation byte does not follow in the chunk, and a continuation byte
\* that no lead byte precedes in the chunk, are replaced
from_utf8_lossy(chunk) ==
    [i \in 1..Len(chunk) |->
        IF chunk[i] = LeadByte /\ (i = Len(chunk) \/ chunk[i + 1] # ContinuationByte)
        THEN Replacement
        ELSE IF chunk[i] = ContinuationByte /\ (i = 1 \/ chunk[i - 1] # LeadByte)
        THEN Replacement
        ELSE chunk[i]]

\* buffer.find('\n'): the position of the first line feed, 0 when there is none
find_newline(s) ==
    IF \E i \in 1..Len(s) : s[i] = "\n"
    THEN CHOOSE i \in 1..Len(s) : s[i] = "\n" /\ \A j \in 1..(i - 1) : s[j] # "\n"
    ELSE 0

\* the next line of the buffer, its trailing carriage return popped
next_line(s) ==
    LET line == SubSeq(s, 1, find_newline(s) - 1)
    IN  IF line # <<>> /\ line[Len(line)] = "\r" THEN SubSeq(line, 1, Len(line) - 1)
        ELSE line

(***************************************************************************)
(* The upstream of the stream adapter                                      *)
(***************************************************************************)
MaxReads == 6

EventNames == {"message_start", "content_block_delta", "message_delta", "message_stop", "ping"}

EventLine(name) == <<"event:", " ", name>>

DataLine(text) == <<"data:", " ", text>>

Lines ==
    {<<>>}
    \cup {EventLine(e) : e \in EventNames}
    \cup {DataLine(j) : j \in DOMAIN JsonTexts}
    \cup {DataLine("[DONE]"), DataLine("oops")}

\* the chunks upstream.next() can yield: a line with its line feed, a line
\* that ends in CR LF, two lines at once, and pieces of a line
Chunks ==
    {l \o <<"\n">> : l \in Lines}
    \cup {EventLine("message_stop") \o <<"\r", "\n">>, DataLine("J_text_y") \o <<"\r", "\n">>}
    \cup {EventLine("content_block_delta") \o <<"\n">> \o DataLine("J_text_He") \o <<"\n">>}
    \cup {<<"data:", " ">>, <<"J_text_He", "\r">>, <<"\n">>}

(***************************************************************************)
(* The stream adapter's steps                                              *)
(***************************************************************************)
\* upstream.next() yields a chunk, which is appended to the buffer
StreamChunk ==
    /\ spc = "await"
    /\ reads < MaxReads
    /\ \E chunk \in Chunks : buffer' = buffer \o from_utf8_lossy(chunk)
    /\ reads' = reads + 1
    /\ spc' = "lines"
    /\ UNCHANGED <<current_event, message_id, stream_model, created, sent_role, sent_done,
                   finish_reason, yielded>>
    /\ UNCHANGED notStream

\* one pass of `while let Some(position) = buffer.find('\n')`
StreamLine ==
    /\ spc = "lines"
    /\ find_newline(buffer) # 0
    /\ buffer' = SubSeq(buffer, find_newline(buffer) + 1, Len(buffer))
    /\ LET line == next_line(buffer)
           event_value == strip_prefix(line, <<"event:">>)
           data_line == IF strip_prefix(line, <<"data:">>) = NoneOpt THEN NoneOpt
                        ELSE Some(trim(strip_prefix(line, <<"data:">>)[1]))
           parsed == IF data_line = NoneOpt THEN NoneOpt ELSE from_str(data_line[1])
       IN  IF line = <<>>
           THEN UNCHANGED <<current_event, message_id, stream_model, sent_role, sent_done,
                            finish_reason, yielded>>
           ELSE IF event_value # NoneOpt
           THEN /\ current_event' = trim(event_value[1])
                /\ UNCHANGED <<message_id, stream_model, sent_role, sent_done,
                               finish_reason, yielded>>
           ELSE IF data_line = NoneOpt
           THEN UNCHANGED <<current_event, message_id, stream_model, sent_role, sent_done,
                            finish_reason, yielded>>
           ELSE IF data_line[1] = <<"[DONE]">>
           THEN /\ yielded' = IF ~sent_done THEN Append(yielded, DoneFrame) ELSE yielded
                /\ sent_done' = TRUE
                /\ UNCHANGED <<current_event, message_id, stream_model, sent_role,
                               finish_reason>>
           ELSE IF parsed = NoneOpt
           THEN UNCHANGED <<current_event, message_id, stream_model, sent_role, sent_done,
                            finish_reason, yielded>>
           ELSE IF current_event = <<"message_start">>
           THEN /\ message_id' = IF get_get_str(parsed[1], "message", "id") # NoneOpt
                                 THEN get_get_str(parsed[1], "message", "id")[1]
                                 ELSE message_id
                /\ stream_model' = IF get_get_str(parsed[1], "message", "model") # NoneOpt
                                   THEN get_get_str(parsed[1], "message", "model")[1]
                                   ELSE stream_model
                /\ UNCHANGED <<current_event, sent_role, sent_done, finish_reason, yielded>>
           ELSE IF current_event = <<"message_delta">>
           THEN /\ finish_reason' =
                      IF get_get_str(parsed[1], "delta", "stop_reason") # NoneOpt
                      THEN map_stop_reason(get_get_str(parsed[1], "delta", "stop_reason")[1])
                      ELSE finish_reason
                /\ UNCHANGED <<current_event, message_id, stream_model, sent_role,
                               sent_done, yielded>>
           ELSE IF current_event = <<"content_block_delta">>
           THEN LET delta_text == IF get_get_str(parsed[1], "delta", "text") # NoneOpt
                                  THEN get_get_str(parsed[1], "delta", "text")[1]
                                  ELSE <<>>
                IN  IF delta_text = <<>>
                    THEN UNCHANGED <<current_event, message_id, stream_model, sent_role,
                                     sent_done, finish_reason, yielded>>
                    ELSE /\ yielded' = (IF ~sent_role THEN Append(yielded, Frame(role_chunk))
                                    ELSE yielded) \o <<Frame(content_chunk(delta_text))>>
                         /\ sent_role' = TRUE
                         /\ UNCHANGED <<current_event, message_id, stream_model, sent_done,
                                        finish_reason>>
           ELSE IF current_event = <<"message_stop">>
           THEN /\ yielded' = yielded \o <<Frame(final_chunk), DoneFrame>>
                /\ sent_done' = TRUE
                /\ UNCHANGED <<current_event, message_id, stream_model, sent_role,
                               finish_reason>>
           ELSE UNCHANGED <<current_event, message_id, stream_model, sent_role, sent_done,
                            finish_reason, yielded>>
    /\ UNCHANGED <<spc, reads, created>>
    /\ UNCHANGED notStream

\* the buffer holds no line feed any more: back to upstream.next()
StreamDrained ==
    /\ spc = "lines"
    /\ find_newline(buffer) = 0
    /\ spc' = "await"
    /\ UNCHANGED <<buffer, current_event, message_id, stream_model, created, sent_role,
                   sent_done, finish_reason, yielded, reads>>
    /\ UNCHANGED notStream

\* a bug: the request is sent again when reading the stream fails
StreamErrorResends ==
    /\ spc = "await"
    /\ yielded' = Append(yielded, <<"error", <<"text", "Transport">>, "">>)
    /\ spc' = "failed"
    /\ sends' = sends + 1
    /\ UNCHANGED <<buffer, current_event, message_id, stream_model, created, sent_role,
                   sent_done, finish_reason, reads>>
    /\ UNCHANGED <<policy, plan, attempt, rpc, builds, sleeps, last, result>>
    /\ UNCHANGED notStreamNorRetry

\* upstream.next() yields an error: `chunk?` ends the stream with it
StreamError ==
    /\ spc = "await"
    /\ yielded' = Append(yielded, <<"error", <<"text", "Transport">>, "">>)
    /\ spc' = "failed"
    /\ UNCHANGED <<buffer, current_event, message_id, stream_model, created, sent_role,
                   sent_done, finish_reason, reads>>
    /\ UNCHANGED notStream

\* a bug: the terminal pair is not made up at the end of the upstream
StreamEndsBare ==
    /\ spc = "await"
    /\ spc' = "closed"
    /\ UNCHANGED <<buffer, current_event, message_id, stream_model, created, sent_role,
                   sent_done, finish_reason, reads, yielded>>
    /\ UNCHANGED notStream

\* upstream.next() yields None: the terminal pair is made up when no
\* terminator was sent, and the stream ends
StreamEnd ==
    /\ spc = "await"
    /\ spc' = "closed"
    /\ yielded' = IF ~sent_done THEN yielded \o <<Frame(final_chunk), DoneFrame>> ELSE yielded
    /\ UNCHANGED <<buffer, current_event, message_id, stream_model, created, sent_role,
                   sent_done, finish_reason, reads>>
    /\ UNCHANGED notStream

(***************************************************************************)
(* http/responses.rs: the streaming transcoder.  Its input is the byte     *)
(* stream of a chat completion, as chunks of pieces.                       *)
(***************************************************************************)
\* choices.first().and_then(|choice| choice.get(key))
first_choice_get(value, key) ==
    IF get_array(value, "choices") = NoneOpt THEN NoneOpt
    ELSE IF get_array(value, "choices")[1] = <<>> THEN NoneOpt
    ELSE get(get_array(value, "choices")[1][1], key)

\* `delta_text`
delta_content(value) ==
    IF first_choice_get(value, "delta") = NoneOpt THEN <<>>
    ELSE IF get_str(first_choice_get(value, "delta")[1], "content") = NoneOpt THEN <<>>
    ELSE get_str(first_choice_get(value, "delta")[1], "content")[1]

\* finish_reason.is_some() && !finish_reason.is_some_and(Value::is_null)
finishes(value) ==
    /\ first_choice_get(value, "finish_reason") # NoneOpt
    /\ first_choice_get(value, "finish_reason")[1] # JNull

\* the json! of the response.created event
created_event(rid, at, name) ==
    JObj([type |-> JStr(<<"r", "e", "s", "p", "o", "n", "s", "e", ".", "c", "r", "e", "a", "t", "e", "d">>),
          response |-> JObj([id |-> JStr(rid),
                             object |-> JStr(<<"r", "e", "s", "p", "o", "n", "s", "e">>),
                             created_at |-> JNum(at),
                             status |-> JStr(<<"i", "n", "_", "p", "r", "o", "g", "r", "e", "s", "s">>),
                             model |-> JStr(name)])])

\* the json! of the response.output_text.delta event
delta_event(rid, delta_text) ==
    JObj([type |-> JStr(<<"r", "e", "s", "p", "o", "n", "s", "e", ".", "o", "u", "t", "p", "u", "t", "_", "t", "e", "x", "t", ".", "d", "e", "l", "t", "a">>),
          response_id |-> JStr(rid),
          delta |-> JStr(delta_text)])

response_completed_event(rid, at, name, text) ==
    JObj([type |-> JStr(<<"r", "e", "s", "p", "o", "n", "s", "e", ".", "c", "o", "m", "p", "l", "e", "t", "e", "d">>),
          response |-> JObj([id |-> JStr(rid),
                             object |-> JStr(<<"r", "e", "s", "p", "o", "n", "s", "e">>),
                             created_at |-> JNum(at),
                             status |-> JStr(<<"c", "o", "m", "p", "l", "e", "t", "e", "d">>),
                             model |-> JStr(name),
                             output |-> JArr(<<JObj([id |-> JStr(<<"m", "s", "g", "_">> \o rid),
                                                     type |-> JStr(<<"m", "e", "s", "s", "a", "g", "e">>),
                                                     role |-> JStr(<<"a", "s", "s", "i", "s", "t", "a", "n", "t">>),
                                                     content |-> JArr(<<JObj([type |-> JStr(<<"o", "u", "t", "p", "u", "t", "_", "t", "e", "x", "t">>),
                                                                              text |-> JStr(text),
                                                                              annotations |-> JArr(<<>>)])>>)])>>),
                             output_text |-> JStr(text)])])

\* a bug: the text is replaced, not appended to
push_str_replacing(text, delta_text) == delta_text

\* full_text.push_str(delta_text), which is not reached with an empty delta
push_str(text, delta_text) == text \o delta_text

\* a bug: a finish_reason completes the response again
completes_again(value) == finishes(value)

\* the condition of the response.completed event of a chunk
completes(value) == finishes(value) /\ ~emitted_completed

\* a bug: response.created is emitted for every chunk
json_frames_recreating(value, rid, at, name, text) ==
    <<Frame(created_event(rid, at, name))>>
    \o (IF delta_content(value) # <<>>
        THEN <<Frame(delta_event(rid, delta_content(value)))>>
        ELSE <<>>)
    \o (IF completes(value)
        THEN <<Frame(response_completed_event(rid, at, name, text)), DoneFrame>>
        ELSE <<>>)

\* the frames a chunk that is JSON gives, under the state it has just set
json_frames(value, rid, at, name, text) ==
    (IF ~emitted_created THEN <<Frame(created_event(rid, at, name))>> ELSE <<>>)
    \o (IF delta_content(value) # <<>>
        THEN <<Frame(delta_event(rid, delta_content(value)))>>
        ELSE <<>>)
    \o (IF completes(value)
        THEN <<Frame(response_completed_event(rid, at, name, text)), DoneFrame>>
        ELSE <<>>)

(***************************************************************************)
(* The chat streams given to the transcoder                                *)
(***************************************************************************)
MaxChunks == 3

\* an SSE event: the data line and the blank line after it
Event(text) == <<"data:", " ", text, "\n", "\n">>

\* the events of a chat completion stream
ChatEvents == {Event(k) : k \in DOMAIN ChunkTexts} \cup {Event("[DONE]")}

\* the chunks chat_stream.next() can yield: whole events, two events at once,
\* a line that is no JSON, a line in CR LF, and pieces of a line
ChatChunks ==
    ChatEvents
    \cup {Event("K_role") \o Event("K_He")}
    \cup {<<"data:", " ", "oops", "\n">>, <<"data:", "K_He", "\r", "\n">>,
          <<"data:", " ", "K_y">>, <<"\n">>}

RECURSIVE SeqsUpTo(_, _)
SeqsUpTo(S, n) ==
    IF n = 0 THEN {<<>>}
    ELSE SeqsUpTo(S, n - 1) \cup {Append(s, x) : s \in SeqsUpTo(S, n - 1), x \in S}

ChatStreams == SeqsUpTo(ChatChunks, MaxChunks)

(***************************************************************************)
(* The transcoder's steps                                                  *)
(***************************************************************************)
\* chat_stream.next() yields the next chunk, which is appended to the buffer
TranscodeChunk ==
    /\ tpc = "await"
    /\ polled < Len(chat_stream)
    /\ tbuffer' = tbuffer \o from_utf8_lossy(chat_stream[polled + 1])
    /\ polled' = polled + 1
    /\ tpc' = "lines"
    /\ UNCHANGED <<chat_stream, response_id, response_model, created_at, emitted_created,
                   emitted_completed, full_text, emitted>>
    /\ UNCHANGED notTranscode

\* one pass of `while let Some(position) = buffer.find('\n')`
TranscodeLine ==
    /\ tpc = "lines"
    /\ find_newline(tbuffer) # 0
    /\ tbuffer' = SubSeq(tbuffer, find_newline(tbuffer) + 1, Len(tbuffer))
    /\ LET line == next_line(tbuffer)
           data_line == IF strip_prefix(line, <<"data:">>) = NoneOpt THEN NoneOpt
                        ELSE Some(trim(strip_prefix(line, <<"data:">>)[1]))
           value == IF data_line = NoneOpt THEN NoneOpt ELSE from_str(data_line[1])
       IN  IF data_line = NoneOpt \/ data_line = Some(<<>>)
           THEN UNCHANGED <<response_id, response_model, created_at, emitted_created,
                            emitted_completed, full_text, emitted>>
           ELSE IF data_line[1] = <<"[DONE]">>
           THEN /\ emitted' =
                      IF ~emitted_completed
                      THEN emitted \o <<Frame(response_completed_event(response_id, created_at,
                                                    response_model, full_text)),
                                        DoneFrame>>
                      ELSE emitted
                /\ emitted_completed' = TRUE
                /\ UNCHANGED <<response_id, response_model, created_at, emitted_created,
                               full_text>>
           ELSE IF value = NoneOpt
           THEN UNCHANGED <<response_id, response_model, created_at, emitted_created,
                            emitted_completed, full_text, emitted>>
           ELSE LET rid == IF get_str(value[1], "id") # NoneOpt
                          THEN <<"r", "e", "s", "p", "_">> \o get_str(value[1], "id")[1]
                          ELSE response_id
                    name == IF get_str(value[1], "model") # NoneOpt
                            THEN get_str(value[1], "model")[1]
                            ELSE response_model
                    at == IF get_u64(value[1], "created") # NoneOpt
                          THEN get_u64(value[1], "created")[1]
                          ELSE created_at
                    delta_text == delta_content(value[1])
                    text == push_str(full_text, delta_text)
               IN  /\ response_id' = rid
                   /\ response_model' = name
                   /\ created_at' = at
                   /\ emitted_created' = TRUE
                   /\ full_text' = text
                   /\ emitted_completed' = (emitted_completed \/ completes(value[1]))
                   /\ emitted' = emitted \o json_frames(value[1], rid, at, name, text)
    /\ UNCHANGED <<tpc, chat_stream, polled>>
    /\ UNCHANGED notTranscode

\* the buffer holds no line feed any more: back to chat_stream.next()
TranscodeDrained ==
    /\ tpc = "lines"
    /\ find_newline(tbuffer) = 0
    /\ tpc' = "await"
    /\ UNCHANGED <<chat_stream, polled, tbuffer, response_id, response_model, created_at,
                   emitted_created, emitted_completed, full_text, emitted>>
    /\ UNCHANGED notTranscode

\* a bug: after the error the transcoder completes the response
TranscodeErrorThenCompletes ==
    /\ tpc = "await"
    /\ emitted' = emitted
                  \o <<<<"error", <<"text", "Transport">>, "">>,
                       Frame(response_completed_event(response_id, created_at, response_model,
                                                      full_text)),
                       DoneFrame>>
    /\ tpc' = "failed"
    /\ UNCHANGED <<chat_stream, polled, tbuffer, response_id, response_model, created_at,
                   emitted_created, emitted_completed, full_text>>
    /\ UNCHANGED notTranscode

\* chat_stream.next() yields an error: `chunk?` ends the stream with it
TranscodeError ==
    /\ tpc = "await"
    /\ emitted' = Append(emitted, <<"error", <<"text", "Transport">>, "">>)
    /\ tpc' = "failed"
    /\ UNCHANGED <<chat_stream, polled, tbuffer, response_id, response_model, created_at,
                   emitted_created, emitted_completed, full_text>>
    /\ UNCHANGED notTranscode

\* a bug: response.created is not made up at the end of the chat stream
TranscodeEndUncreated ==
    /\ tpc = "await"
    /\ polled = Len(chat_stream)
    /\ tpc' = "closed"
    /\ emitted' =
           IF ~emitted_completed
           THEN emitted
                \o <<Frame(response_completed_event(response_id, created_at, response_model,
                                                    full_text)),
                     DoneFrame>>
           ELSE emitted
    /\ UNCHANGED <<chat_stream, polled, tbuffer, response_id, response_model, created_at,
                   emitted_created, emitted_completed, full_text>>
    /\ UNCHANGED notTranscode

\* chat_stream.next() yields None: response.created, response.completed and
\* [DONE] are made up as far as they were not emitted, and the stream ends
TranscodeEnd ==
    /\ tpc = "await"
    /\ polled = Len(chat_stream)
    /\ tpc' = "closed"
    /\ emitted' =
           IF ~emitted_completed
           THEN emitted
                \o (IF ~emitted_created
                    THEN <<Frame(created_event(response_id, created_at, response_model))>>
                    ELSE <<>>)
                \o <<Frame(response_completed_event(response_id, created_at, response_model,
                                                    full_text)),
                     DoneFrame>>
           ELSE emitted
    /\ UNCHANGED <<chat_stream, polled, tbuffer, response_id, response_model, created_at,
                   emitted_created, emitted_completed, full_text>>
    /\ UNCHANGED notTranscode

(***************************************************************************)
(* error.rs: GatewayError::into_response.  A body is a sequence of tokens, *)
(* each a pair of its kind and its text: a string, a number, a literal, a  *)
(* punctuation mark, a whitespace character or any other word.             *)
(***************************************************************************)
Str(s) == <<"str", s>>
Num(n) == <<"num", n>>
Word(w) == <<"word", w>>
Lit(w) == <<"lit", w>>
P(c) == <<"p", c>>
W(c) == <<"w", c>>

is_json_whitespace(t) == t[1] = "w"

\* body.trim().is_empty()
trim_is_blank(body) == \A i \in 1..Len(body) : body[i][1] = "w"

\* the tokens without the whitespace between them
RECURSIVE significant(_)
significant(tokens) ==
    IF tokens = <<>> THEN <<>>
    ELSE (IF is_json_whitespace(Head(tokens)) THEN <<>> ELSE <<Head(tokens)>>)
         \o significant(Tail(tokens))

\* a scalar token as a value
scalar(t) ==
    IF t = Lit("null") THEN Some(JNull)
    ELSE IF t = Lit("true") THEN Some(JBool(TRUE))
    ELSE IF t = Lit("false") THEN Some(JBool(FALSE))
    ELSE IF t[1] = "str" THEN Some(JStr(t[2]))
    ELSE IF t[1] = "num" THEN Some(JNum(t[2]))
    ELSE NoneOpt

\* serde_json::from_str::<Value>(&body) on bodies that hold a scalar, an
\* empty object or an object of one key with a scalar value
parse_body(body) ==
    LET t == significant(body)
    IN  IF Len(t) = 1 THEN scalar(t[1])
        ELSE IF t = <<P("{"), P("}")>> THEN Some(JObj([k \in {} |-> JNull]))
        ELSE IF /\ Len(t) = 5
                /\ t[1] = P("{") /\ t[3] = P(":") /\ t[5] = P("}")
                /\ t[2][1] = "str"
                /\ scalar(t[4]) # NoneOpt
        THEN Some(<<"member", t[2][2], scalar(t[4])[1]>>)
        ELSE NoneOpt

\* a scalar value as its token
to_vec_scalar(value) ==
    IF value[1] = "null" THEN <<Lit("null")>>
    ELSE IF value[1] = "bool" THEN (IF value[2] THEN <<Lit("true")>> ELSE <<Lit("false")>>)
    ELSE IF value[1] = "string" THEN <<Str(value[2])>>
    ELSE <<Num(value[2])>>

\* the bytes Json(value) writes: serde_json's compact form
to_vec(value) ==
    IF value[1] = "member"
    THEN <<P("{"), Str(value[2]), P(":")>> \o to_vec_scalar(value[3]) \o <<P("}")>>
    ELSE IF value[1] = "object" THEN <<P("{"), P("}")>>
    ELSE to_vec_scalar(value)

UNAUTHORIZED == 401
BAD_REQUEST == 400
BAD_GATEWAY == 502
INTERNAL_SERVER_ERROR == 500

\* (status, Json(OpenAiErrorResponse {error: OpenAiError {..}}))
error_response(status, message, error_type) ==
    [status |-> status,
     body |-> <<"envelope", [message |-> message, type |-> error_type,
                             param |-> NoneOpt, code |-> NoneOpt]>>]

\* a bug: an upstream body that is JSON is wrapped like any other
into_response_wrapping(e) ==
    IF e[1] = "Unauthorized" THEN error_response(UNAUTHORIZED, e[2], "authentication_error")
    ELSE IF e[1] = "BadRequest" THEN error_response(BAD_REQUEST, e[2], "invalid_request_error")
    ELSE IF e[1] = "Upstream"
    THEN error_response(e[2].status,
                        IF trim_is_blank(e[2].body)
                        THEN <<Word("Upstream provider returned "), Num(e[2].status)>>
                        ELSE e[2].body,
                        "upstream_error")
    ELSE IF e[1] = "Transport"
    THEN error_response(BAD_GATEWAY, "Failed to reach upstream provider", "upstream_error")
    ELSE error_response(INTERNAL_SERVER_ERROR, e[2], "internal_error")

\* GatewayError::into_response
into_response(e) ==
    IF e[1] = "Unauthorized" THEN error_response(UNAUTHORIZED, e[2], "authentication_error")
    ELSE IF e[1] = "BadRequest" THEN error_response(BAD_REQUEST, e[2], "invalid_request_error")
    ELSE IF e[1] = "Upstream"
    THEN IF parse_body(e[2].body) # NoneOpt
         THEN [status |-> e[2].status, body |-> <<"json", to_vec(parse_body(e[2].body)[1])>>]
         ELSE error_response(e[2].status,
                             IF trim_is_blank(e[2].body)
                             THEN <<Word("Upstream provider returned "), Num(e[2].status)>>
                             ELSE e[2].body,
                             "upstream_error")
    ELSE IF e[1] = "Transport"
    THEN error_response(BAD_GATEWAY, "Failed to reach upstream provider", "upstream_error")
    ELSE error_response(INTERNAL_SERVER_ERROR, e[2], "internal_error")

\* the statuses and bodies of upstream errors
ErrorStatuses == {400, 401, 404, 429, 500, 502, 503}

ErrorBodies ==
    { <<P("{"), Str(<<"e", "r", "r", "o", "r">>), P(":"), Str(<<"n", "o", "p", "e">>), P("}")>>,
      <<P("{"), W(" "), Str(<<"e", "r", "r", "o", "r">>), P(":"), W(" "), Str(<<"n", "o", "p", "e">>), W(" "), P("}")>>,
      <<P("{"), Str(<<"e", "r", "r", "o", "r">>), P(":"), Str(<<"n", "o", "p", "e">>), P("}"), W("\n")>>,
      <<P("{"), P("}")>>,
      <<Str(<<"n", "o", "p", "e">>)>>,
      <<Num(42)>>,
      <<Lit("null")>>,
      <<Word("oops")>>,
      <<W(" "), Word("oops"), W("\n")>>,
      <<P("{"), Str(<<"e", "r", "r", "o", "r">>), P(":")>>,
      <<>>,
      <<W(" "), W("\n")>> }

GatewayErrors ==
    {<<"Upstream", [status |-> s, body |-> b]>> : s \in ErrorStatuses, b \in ErrorBodies}
    \cup {<<"Unauthorized", "Missing authorization header">>,
          <<"BadRequest", "Invalid JSON request body">>,
          <<"Transport", "reqwest::Error">>,
          <<"Internal", "Upstream returned invalid JSON">>}

\* a handler returned Err(e): the response the client gets
IntoResponse ==
    /\ gerror # None
    /\ client = NoneOpt
    /\ client' = Some(into_response(gerror))
    /\ UNCHANGED gerror
    /\ UNCHANGED notError

(***************************************************************************)
(* sdk/anthropic.rs, sdk/gemini.rs, sdk/kimi.rs: stream_text as a whole.   *)
(* The call builds its request, sends it with send_with_retry, tests the   *)
(* status of the response and returns the stream, whose steps follow.      *)
(***************************************************************************)
\* StatusCode::is_success
is_success(status) == 200 <= status /\ status < 300

\* the test each adapter's stream_text makes of the response's status
passes(kind, status) ==
    IF kind = "Anthropic" THEN is_success(status) ELSE status = 200

\* stream_text up to the await of send_with_retry
StreamTextCall ==
    /\ stx = "start"
    /\ IF adapter = "Anthropic" /\ ~to_anthropic_request(acall.request, TRUE).ok
       THEN /\ stream_result' = Some(to_anthropic_request(acall.request, TRUE))
            /\ stx' = "done"
            /\ UNCHANGED rpc
       ELSE IF adapter = "Anthropic" /\ ~headers(acall.api_key).ok
       THEN /\ stream_result' = Some(headers(acall.api_key))
            /\ stx' = "done"
            /\ UNCHANGED rpc
       ELSE /\ stx' = "sending"
            /\ rpc' = "start"
            /\ UNCHANGED stream_result
    /\ UNCHANGED <<adapter, policy, plan, attempt, builds, sends, sleeps, last, result>>
    /\ UNCHANGED notStreamTextNorRetry

\* send_with_retry has returned: its error, the Upstream error of a response
\* whose status does not pass, or the stream over the response's bytes
StreamTextReturns ==
    /\ stx = "sending"
    /\ rpc = "done"
    /\ stx' = "done"
    /\ IF ~result.ok
       THEN /\ stream_result' = Some(Err("Transport", result.val))
            /\ UNCHANGED streamVars
       ELSE IF ~passes(adapter, result.val)
       THEN /\ \E body \in {<<>>, <<Word("oops")>>} :
                  stream_result' = Some(Err("Upstream", [status |-> result.val, body |-> body]))
            /\ UNCHANGED streamVars
       ELSE /\ stream_result' = Some(Ok("stream"))
            /\ spc' = IF adapter = "Anthropic" THEN "await" ELSE "pass"
            /\ reads' = 0
            /\ buffer' = <<>>
            /\ current_event' = <<>>
            /\ message_id' = <<"c", "h", "a", "t", "c", "m", "p", "l", "-", "a", "n", "t", "h", "r", "o", "p", "i", "c">>
            /\ stream_model' = IF get_str(acall.request, "model") # NoneOpt
                               THEN get_str(acall.request, "model")[1]
                               ELSE <<"c", "l", "a", "u", "d", "e">>
            /\ created' = 1700000000
            /\ sent_role' = FALSE
            /\ sent_done' = FALSE
            /\ finish_reason' = <<"s", "t", "o", "p">>
            /\ yielded' = <<>>
    /\ UNCHANGED adapter
    /\ UNCHANGED notStreamTextNorStream

\* Gemini, Kimi: the stream is the response's bytes_stream with its errors
\* mapped: a chunk is yielded as it came
PassChunk ==
    /\ spc = "pass"
    /\ reads < MaxReads
    /\ \E chunk \in {"data: {..}\n\n", "data: [DONE]\n\n"} :
          yielded' = Append(yielded, <<"bytes", <<"text", chunk>>, "">>)
    /\ reads' = reads + 1
    /\ UNCHANGED <<spc, buffer, current_event, message_id, stream_model, created, sent_role,
                   sent_done, finish_reason>>
    /\ UNCHANGED notStream

\* a read error is yielded as GatewayError::Transport, and ends the stream
PassError ==
    /\ spc = "pass"
    /\ yielded' = Append(yielded, <<"error", <<"text", "Transport">>, "">>)
    /\ spc' = "failed"
    /\ UNCHANGED <<buffer, current_event, message_id, stream_model, created, sent_role,
                   sent_done, finish_reason, reads>>
    /\ UNCHANGED notStream

\* the response's bytes end
PassEnd ==
    /\ spc = "pass"
    /\ spc' = "closed"
    /\ UNCHANGED <<buffer, current_event, message_id, stream_model, created, sent_role,
                   sent_done, finish_reason, reads, yielded>>
    /\ UNCHANGED notStream

\* the calls of stream_text: a request the adapter takes, and one without
\* messages; an upstream that answers at once or after one retry, or keeps
\* failing
StreamTextRequests ==
    { JObj([model |-> JStr(Claude), messages |-> JArr(<<UserHi>>), stream |-> JBool(TRUE)]),
      JObj([model |-> JStr(Claude), messages |-> JArr(<<>>)]) }

StreamTextPlans ==
    { [failures |-> 1, final |-> Response(200)],
      [failures |-> 0, final |-> Response(204)],
      [failures |-> 0, final |-> Response(404)],
      [failures |-> 0, final |-> Failure("builder")],
      [failures |-> 2, final |-> Response(200)] }

(***************************************************************************)
(* Two requests in flight at once (main.rs, http/state.rs).  axum runs the *)
(* handler of each request as a task of its own; the tasks share AppState: *)
(* the registry, whose adapters hold the retry policy, and the config.     *)
(* A task is the record of the locals of `responses`, send_with_retry and  *)
(* stream_responses_from_chat_stream for one streaming request that an     *)
(* adapter passing the upstream's bytes through (Gemini, Kimi) serves.     *)
(***************************************************************************)
RequestIds == {1, 2}

\* ProviderRegistry::new as main calls it: the adapter type behind each kind,
\* each built with the one retry policy
registry_new(retry_policy) ==
    [k \in ProviderKind |->
        [adapter |-> IF k \in {"Anthropic", "Gemini", "Kimi", "AzureOpenAi"} THEN k ELSE "OpenAi",
         retry_policy |-> retry_policy]]

\* the locals of a request that has just arrived
task_start(inp) ==
    [pc |-> "body", kind |-> "", attempt |-> 0, sent |-> 0, sleeps |-> <<>>, polled |-> 0,
     buffer |-> <<>>,
     response_id |-> <<"r", "e", "s", "p", "_", "g", "a", "t", "e", "w", "a", "y">>,
     response_model |-> <<"u", "n", "k", "n", "o", "w", "n">>,
     created_at |-> inp.now,
     emitted_created |-> FALSE, emitted_completed |-> FALSE, full_text |-> <<>>,
     pending |-> <<>>, written |-> <<>>, result |-> NoneOpt]

\* the handler returns an error
task_fails(t, error) == [t EXCEPT !.pc = "done", !.result = Some(error)]

\* `responses` from the extraction of the body to the await of the first send
responses_begin(t, inp, cfg) ==
    LET token == extract_bearer(inp.authorization)
        chat_payload == IF inp.payload = Rejected
                        THEN BadRequest("Invalid JSON request body")
                        ELSE build_chat_request(inp.payload)
        name == IF chat_payload.ok THEN validate_chat_completion_request(chat_payload.val)
                ELSE chat_payload
        kind == resolve_model(name.val)[1]
        api_key == resolve_provider_api_key(cfg, token.val, kind)
    IN  IF ~token.ok THEN task_fails(t, token)
        ELSE IF ~chat_payload.ok THEN task_fails(t, chat_payload)
        ELSE IF ~name.ok THEN task_fails(t, name)
        ELSE IF ~api_key.ok THEN task_fails(t, api_key)
        ELSE [t EXCEPT !.pc = "send", !.kind = kind]

\* one turn of send_with_retry's loop, the send resolving with outcome o, and
\* what stream_text and the handler do with the value it returns
retry_turn(t, o, provider) ==
    IF Retryable(o) /\ t.attempt < provider.retry_policy.max_retries
    THEN [t EXCEPT !.pc = "sleep", !.sent = @ + 1,
                   !.sleeps = Append(@, delay_for_attempt(provider.retry_policy, t.attempt))]
    ELSE IF o.kind = "error"
    THEN [task_fails(t, Err("Transport", o.val)) EXCEPT !.sent = @ + 1]
    ELSE IF ~passes(provider.adapter, o.val)
    THEN [task_fails(t, Err("Upstream", [status |-> o.val, body |-> <<>>])) EXCEPT !.sent = @ + 1]
    ELSE [t EXCEPT !.pc = "stream", !.sent = @ + 1, !.result = Some(Ok(<<"stream">>))]

\* the sleep ends: attempt += 1; continue
retry_wake(t) == [t EXCEPT !.pc = "send", !.attempt = @ + 1]

\* one pass of the transcoder's `while let Some(position) = buffer.find('\n')`
line_step(t) ==
    LET line == next_line(t.buffer)
        drained == [t EXCEPT !.buffer = SubSeq(@, find_newline(@) + 1, Len(@))]
        data_line == IF strip_prefix(line, <<"data:">>) = NoneOpt THEN NoneOpt
                     ELSE Some(trim(strip_prefix(line, <<"data:">>)[1]))
        value == IF data_line = NoneOpt THEN NoneOpt ELSE from_str(data_line[1])
    IN  IF data_line = NoneOpt \/ data_line = Some(<<>>) THEN drained
        ELSE IF data_line[1] = <<"[DONE]">>
        THEN [drained EXCEPT
                !.emitted_completed = TRUE,
                !.pending = IF ~t.emitted_completed
                            THEN @ \o <<Frame(response_completed_event(t.response_id,
                                                  t.created_at, t.response_model, t.full_text)),
                                        DoneFrame>>
                            ELSE @]
        ELSE IF value = NoneOpt THEN drained
        ELSE LET rid == IF get_str(value[1], "id") # NoneOpt
                        THEN <<"r", "e", "s", "p", "_">> \o get_str(value[1], "id")[1]
                        ELSE t.response_id
                 name == IF get_str(value[1], "model") # NoneOpt
                         THEN get_str(value[1], "model")[1]
                         ELSE t.response_model
                 at == IF get_u64(value[1], "created") # NoneOpt
                       THEN get_u64(value[1], "created")[1]
                       ELSE t.created_at
                 delta_text == delta_content(value[1])
                 text == t.full_text \o delta_text
                 completing == finishes(value[1]) /\ ~t.emitted_completed
             IN  [drained EXCEPT
                    !.response_id = rid,
                    !.response_model = name,
                    !.created_at = at,
                    !.emitted_created = TRUE,
                    !.full_text = text,
                    !.emitted_completed = (@ \/ completing),
                    !.pending =
                        @ \o (IF ~t.emitted_created
                              THEN <<Frame(created_event(rid, at, name))>> ELSE <<>>)
                          \o (IF delta_text # <<>>
                              THEN <<Frame(delta_event(rid, delta_text))>> ELSE <<>>)
                          \o (IF completing
                              THEN <<Frame(response_completed_event(rid, at, name, text)),
                                     DoneFrame>>
                              ELSE <<>>)]

\* the inner loop, run until the buffer holds no line feed
RECURSIVE drain(_)
drain(t) == IF find_newline(t.buffer) = 0 THEN t ELSE drain(line_step(t))

\* chat_stream.next() yields a chunk: it is appended to the buffer and the
\* lines the buffer now holds are transcoded
poll_chunk(t, chunk) ==
    drain([t EXCEPT !.buffer = @ \o from_utf8_lossy(chunk), !.polled = @ + 1])

\* chat_stream.next() yields an error or None
poll_end(t, tail) ==
    IF tail = "error"
    THEN [t EXCEPT !.pc = "ended",
                   !.pending = Append(@, <<"error", <<"text", "Transport">>, "">>)]
    ELSE [t EXCEPT
            !.pc = "ended",
            !.pending =
                IF ~t.emitted_completed
                THEN @ \o (IF ~t.emitted_created
                           THEN <<Frame(created_event(t.response_id, t.created_at,
                                                      t.response_model))>>
                           ELSE <<>>)
                       \o <<Frame(response_completed_event(t.response_id, t.created_at,
                                                           t.response_model, t.full_text)),
                            DoneFrame>>
                ELSE @]

\* the body stream hands the next frame to the client's connection
write_frame(t) == [t EXCEPT !.written = Append(@, Head(t.pending)), !.pending = Tail(@)]

\* the request is over: an error response, or the body stream at its end
Finished(t) == t.pc = "done" \/ (t.pc = "ended" /\ t.pending = <<>>)

\* a bug: the line buffer is one buffer that all requests use
update_sharing_buffer(tasks, r, t) ==
    [q \in DOMAIN tasks |-> IF q = r THEN t ELSE [tasks[q] EXCEPT !.buffer = t.buffer]]

\* a step of request r changes the locals of r: they live in the future of
\* its handler and in the generators of its streams
update(tasks, r, t) == [tasks EXCEPT ![r] = t]

\* the requests: streamed by Gemini after one retry; streamed by Kimi until
\* the upstream breaks off inside a line; without credentials; refused by the
\* upstream after a retry
TaskInputs ==
    LET payload(m) == JObj([model |-> JStr(m), input |-> JStr(<<"h", "i">>), stream |-> JBool(TRUE)])
    IN  { [authorization |-> Some(<<"B", "e", "a", "r", "e", "r", " ">> \o T1), payload |-> payload(<<"g", "e", "m", "i", "n", "i", "/", "g">>),
           now |-> 1700000000,
           outcomes |-> <<Response(503), Response(200)>>,
           chunks |-> <<Event("K_role") \o Event("K_He"), <<"data:", " ", "K_y">>,
                        <<"\n">> \o Event("[DONE]")>>,
           tail |-> "end"],
          [authorization |-> Some(<<"B", "e", "a", "r", "e", "r", " ">> \o T3), payload |-> payload(<<"k", "i", "m", "i", "-", "k", "2">>),
           now |-> 1700000001,
           outcomes |-> <<Response(200), Response(200)>>,
           chunks |-> <<Event("K_He"), <<"data:", " ", "K_y_stop">>>>,
           tail |-> "error"],
          [authorization |-> NoneOpt, payload |-> payload(<<"g", "e", "m", "i", "n", "i", "/", "g">>),
           now |-> 1700000000,
           outcomes |-> <<Response(200), Response(200)>>,
           chunks |-> <<>>,
           tail |-> "end"],
          [authorization |-> Some(<<"B", "e", "a", "r", "e", "r", " ">> \o T1), payload |-> payload(<<"k", "i", "m", "i", "-", "k", "2">>),
           now |-> 1700000000,
           outcomes |-> <<Failure("timeout"), Response(404)>>,
           chunks |-> <<>>,
           tail |-> "end"] }

\* the body of request r has arrived and its handler runs to its first await
TaskBody ==
    \E r \in RequestIds :
        /\ rq[r].pc = "body"
        /\ rq' = update(rq, r, responses_begin(rq[r], inputs[r], config))
        /\ UNCHANGED <<registry, inputs>>
        /\ UNCHANGED notConcurrent

\* a send of request r resolves
TaskSend ==
    \E r \in RequestIds :
        /\ rq[r].pc = "send"
        /\ rq' = update(rq, r, retry_turn(rq[r], inputs[r].outcomes[rq[r].sent + 1],
                                          registry[rq[r].kind]))
        /\ UNCHANGED <<registry, inputs>>
        /\ UNCHANGED notConcurrent

\* a retry sleep of request r ends
TaskWake ==
    \E r \in RequestIds :
        /\ rq[r].pc = "sleep"
        /\ rq' = update(rq, r, retry_wake(rq[r]))
        /\ UNCHANGED <<registry, inputs>>
        /\ UNCHANGED notConcurrent

\* the upstream of request r yields a chunk; the body stream is polled only
\* when the frames it gave before are written
TaskPoll ==
    \E r \in RequestIds :
        /\ rq[r].pc = "stream"
        /\ rq[r].pending = <<>>
        /\ rq[r].polled < Len(inputs[r].chunks)
        /\ rq' = update(rq, r, poll_chunk(rq[r], inputs[r].chunks[rq[r].polled + 1]))
        /\ UNCHANGED <<registry, inputs>>
        /\ UNCHANGED notConcurrent

\* the upstream of request r ends or fails
TaskEnd ==
    \E r \in RequestIds :
        /\ rq[r].pc = "stream"
        /\ rq[r].pending = <<>>
        /\ rq[r].polled = Len(inputs[r].chunks)
        /\ rq' = update(rq, r, poll_end(rq[r], inputs[r].tail))
        /\ UNCHANGED <<registry, inputs>>
        /\ UNCHANGED notConcurrent

\* a frame of request r is written to its client
TaskWrite ==
    \E r \in RequestIds :
        /\ rq[r].pc \in {"stream", "ended"}
        /\ rq[r].pending # <<>>
        /\ rq' = update(rq, r, write_frame(rq[r]))
        /\ UNCHANGED <<registry, inputs>>
        /\ UNCHANGED notConcurrent

(***************************************************************************)
(* http/handlers.rs, responses with stream: true.  The chat stream that    *)
(* stream_text returns is given to stream_responses_from_chat_stream: each *)
(* item the adapter's stream yields is a chunk of the transcoder.  The     *)
(* adapter is Anthropic's, which writes frames of its own, or Gemini's,    *)
(* which passes the upstream's chunks on.  The upstream is a script: the   *)
(* chunks it sends, after which it ends, unless a read fails before.       *)
(***************************************************************************)
\* the frames among the items the adapter's stream has yielded
frames(items) == SelectSeq(items, LAMBDA f : f[1] # "error")

\* the bytes of a frame, as the pieces of a chunk: "data: ", the text and the
\* end of the frame
to_bytes(frame) ==
    <<"data:", " ", IF frame[2][1] = "json" THEN to_string(frame[2][2]) ELSE frame[2][2],
      frame[3]>>

\* every item the adapter's stream has yielded has been taken by the transcoder
AllTaken == adapter = "Gemini" \/ Len(chat_stream) = Len(frames(yielded))

\* a bug: the chunk replaces what the buffer holds of the line before
AdapterChunkForgetful ==
    /\ adapter = "Anthropic"
    /\ spc = "await"
    /\ reads < Len(upstream)
    /\ AllTaken
    /\ buffer' = from_utf8_lossy(upstream[reads + 1])
    /\ reads' = reads + 1
    /\ spc' = "lines"
    /\ UNCHANGED <<current_event, message_id, stream_model, created, sent_role, sent_done,
                   finish_reason, yielded>>
    /\ UNCHANGED notStream

\* upstream.next() yields the next chunk of the script.  A yield of
\* try_stream! suspends the adapter until its item is taken, so the adapter
\* is here only when every frame it yielded has been taken.
AdapterChunk ==
    /\ adapter = "Anthropic"
    /\ spc = "await"
    /\ reads < Len(upstream)
    /\ AllTaken
    /\ buffer' = buffer \o from_utf8_lossy(upstream[reads + 1])
    /\ reads' = reads + 1
    /\ spc' = "lines"
    /\ UNCHANGED <<current_event, message_id, stream_model, created, sent_role, sent_done,
                   finish_reason, yielded>>
    /\ UNCHANGED notStream

\* upstream.next() yields None at the end of the script
AdapterEnd ==
    /\ adapter = "Anthropic"
    /\ reads = Len(upstream)
    /\ AllTaken
    /\ StreamEnd

\* the adapter, resumed after its yields, handles the next line of its buffer
AdapterLine ==
    /\ AllTaken
    /\ StreamLine

\* a bug: the adapter goes back to upstream.next() while a frame it yielded
\* is not yet taken
AdapterDrainedEager ==
    /\ StreamDrained

\* the buffer holds no line feed any more and the adapter, resumed after its
\* yields, goes back to upstream.next()
AdapterDrained ==
    /\ AllTaken
    /\ StreamDrained

\* upstream.next() yields an error
AdapterError ==
    /\ AllTaken
    /\ StreamError

\* the adapter's stream yields a frame and the transcoder's
\* chat_stream.next() takes it
Handover ==
    /\ adapter = "Anthropic"
    /\ Len(chat_stream) < Len(frames(yielded))
    /\ chat_stream' = Append(chat_stream, to_bytes(frames(yielded)[Len(chat_stream) + 1]))
    /\ UNCHANGED <<tpc, polled, tbuffer, response_id, response_model, created_at,
                   emitted_created, emitted_completed, full_text, emitted>>
    /\ UNCHANGED notTranscode

\* Gemini: the next chunk of the script is the next item of the chat stream,
\* polled when the transcoder has taken the one before
PassThrough ==
    /\ adapter = "Gemini"
    /\ spc = "pass"
    /\ reads < Len(upstream)
    /\ tpc = "await"
    /\ polled = Len(chat_stream)
    /\ chat_stream' = Append(chat_stream, upstream[reads + 1])
    /\ reads' = reads + 1
    /\ UNCHANGED <<spc, buffer, current_event, message_id, stream_model, created, sent_role,
                   sent_done, finish_reason, yielded>>
    /\ UNCHANGED <<tpc, polled, tbuffer, response_id, response_model, created_at,
                   emitted_created, emitted_completed, full_text, emitted>>
    /\ UNCHANGED notStreamNorTranscode

\* Gemini: the response's bytes end at the end of the script
PassThroughEnd ==
    /\ adapter = "Gemini"
    /\ reads = Len(upstream)
    /\ PassEnd

\* chat_stream.next() yields None: the adapter's stream has ended
ChatStreamEnd ==
    /\ spc = "closed"
    /\ AllTaken
    /\ TranscodeEnd

\* chat_stream.next() yields the error that ended the adapter's stream
ChatStreamError ==
    /\ spc = "failed"
    /\ AllTaken
    /\ polled = Len(chat_stream)
    /\ TranscodeError

Ln(line) == line \o <<"\n">>

\* an SSE event of the Anthropic upstream: its event line, its data line and
\* the blank line
Ev(name, text) == Ln(EventLine(name)) \o Ln(DataLine(text)) \o <<"\n">>

\* the chunks and their two-part splits
Partitions(bytes) ==
    {<<bytes>>}
    \cup {<<SubSeq(bytes, 1, k), SubSeq(bytes, k + 1, Len(bytes))>> : k \in 1..(Len(bytes) - 1)}

\* an Anthropic upstream whose text delta holds a character of two bytes and
\* whose data line ends in CR LF
AnthropicBytes ==
    Ln(EventLine("content_block_delta"))
    \o <<"data:", " ", "J_text(", LeadByte, ContinuationByte, ")", "\r", "\n", "\n">>
    \o Ev("message_stop", "J_empty")

\* a chat completion upstream of the same kind
ChatBytes ==
    Event("K_role")
    \o <<"data:", " ", "K_content(", LeadByte, ContinuationByte, ")", "\r", "\n", "\n">>
    \o Event("K_stop")
    \o Event("[DONE]")

\* the scripts of an Anthropic upstream: two message_start events and three
\* stop reasons; no message_start before the first text, and no
\* message_stop; message_stop twice, text after it and a [DONE] line; every
\* split of AnthropicBytes
AnthropicScripts ==
    { <<Ev("message_start", "J_start"), Ev("content_block_delta", "J_text_He"),
        Ev("message_start", "J_start_2"), Ev("content_block_delta", "J_text_y"),
        Ev("message_delta", "J_stop_max_tokens"), Ev("message_delta", "J_stop_tool_use"),
        Ev("message_stop", "J_empty")>>,
      <<Ev("content_block_delta", "J_text_He"), Ev("message_start", "J_start_id"),
        Ev("message_delta", "J_stop_null"), Ev("content_block_delta", "J_text_y")>>,
      <<Ev("message_delta", "J_stop_end_turn"), Ev("message_stop", "J_empty"),
        Ln(DataLine("J_empty")), Ev("content_block_delta", "J_text_He"),
        Ln(DataLine("[DONE]"))>> }
    \cup Partitions(AnthropicBytes)

\* the scripts of a chat completion upstream: a whole stream, a stream with
\* content after its finish_reason and after [DONE]; every split of ChatBytes
ChatScripts ==
    { <<Event("K_role"), Event("K_He"), Event("K_y_stop"), Event("[DONE]")>>,
      <<Event("K_He"), Event("K_stop"), Event("K_y"), Event("[DONE]"), Event("K_He")>>,
      <<Event("[DONE]")>> }
    \cup Partitions(ChatBytes)

(***************************************************************************)
(* The specifications                                                      *)
(***************************************************************************)

\* send_with_retry is entered with a policy; the upstream's behaviour is a
\* number of retryable outcomes followed by a final one
InitRetry ==
    /\ policy \in [max_retries : 0..MaxRetries, base_delay_ms : BaseDelays]
    /\ plan \in [failures : 0..(MaxRetries + 1), final : FinalOutcomes]
    /\ attempt = 0
    /\ rpc = "start"
    /\ builds = 0
    /\ sends = 0
    /\ sleeps = <<>>
    /\ last = None
    /\ result = None
    /\ model = <<>>
    /\ route = NoneOpt
    /\ config = None
    /\ probe = None
    /\ creds = NoneOpt
    /\ req = None
    /\ hpc = "idle"
    /\ calls = <<>>
    /\ idx = 0
    /\ data = <<>>
    /\ first_error = NoneOpt
    /\ fetched = NoneOpt
    /\ resp = NoneOpt
    /\ acall = None
    /\ apc = "idle"
    /\ abody = NoneOpt
    /\ posted = <<>>
    /\ aresult = NoneOpt
    /\ spc = "idle"
    /\ reads = 0
    /\ buffer = <<>>
    /\ current_event = <<>>
    /\ message_id = <<>>
    /\ stream_model = <<>>
    /\ created = 0
    /\ sent_role = FALSE
    /\ sent_done = FALSE
    /\ finish_reason = <<>>
    /\ yielded = <<>>
    /\ tpc = "idle"
    /\ chat_stream = <<>>
    /\ polled = 0
    /\ tbuffer = <<>>
    /\ response_id = <<>>
    /\ response_model = <<>>
    /\ created_at = 0
    /\ emitted_created = FALSE
    /\ emitted_completed = FALSE
    /\ full_text = <<>>
    /\ emitted = <<>>
    /\ gerror = None
    /\ client = NoneOpt
    /\ adapter = None
    /\ stx = "idle"
    /\ stream_result = NoneOpt
    /\ registry = None
    /\ inputs = None
    /\ rq = None
    /\ upstream = <<>>

\* resolve_model is called with a model string
InitRoute ==
    /\ model \in ModelStrings
    /\ route = NoneOpt
    /\ policy = None
    /\ plan = None
    /\ attempt = 0
    /\ rpc = "idle"
    /\ builds = 0
    /\ sends = 0
    /\ sleeps = <<>>
    /\ last = None
    /\ result = None
    /\ config = None
    /\ probe = None
    /\ creds = NoneOpt
    /\ req = None
    /\ hpc = "idle"
    /\ calls = <<>>
    /\ idx = 0
    /\ data = <<>>
    /\ first_error = NoneOpt
    /\ fetched = NoneOpt
    /\ resp = NoneOpt
    /\ acall = None
    /\ apc = "idle"
    /\ abody = NoneOpt
    /\ posted = <<>>
    /\ aresult = NoneOpt
    /\ spc = "idle"
    /\ reads = 0
    /\ buffer = <<>>
    /\ current_event = <<>>
    /\ message_id = <<>>
    /\ stream_model = <<>>
    /\ created = 0
    /\ sent_role = FALSE
    /\ sent_done = FALSE
    /\ finish_reason = <<>>
    /\ yielded = <<>>
    /\ tpc = "idle"
    /\ chat_stream = <<>>
    /\ polled = 0
    /\ tbuffer = <<>>
    /\ response_id = <<>>
    /\ response_model = <<>>
    /\ created_at = 0
    /\ emitted_created = FALSE
    /\ emitted_completed = FALSE
    /\ full_text = <<>>
    /\ emitted = <<>>
    /\ gerror = None
    /\ client = NoneOpt
    /\ adapter = None
    /\ stx = "idle"
    /\ stream_result = NoneOpt
    /\ registry = None
    /\ inputs = None
    /\ rq = None
    /\ upstream = <<>>

\* resolve_provider_api_key is called for a provider and two client tokens
InitCred ==
    /\ config \in Configs
    /\ probe \in [provider : ProviderKind, t1 : ClientTokens, t2 : ClientTokens]
    /\ creds = NoneOpt
    /\ policy = None
    /\ plan = None
    /\ attempt = 0
    /\ rpc = "idle"
    /\ builds = 0
    /\ sends = 0
    /\ sleeps = <<>>
    /\ last = None
    /\ result = None
    /\ model = <<>>
    /\ route = NoneOpt
    /\ req = None
    /\ hpc = "idle"
    /\ calls = <<>>
    /\ idx = 0
    /\ data = <<>>
    /\ first_error = NoneOpt
    /\ fetched = NoneOpt
    /\ resp = NoneOpt
    /\ acall = None
    /\ apc = "idle"
    /\ abody = NoneOpt
    /\ posted = <<>>
    /\ aresult = NoneOpt
    /\ spc = "idle"
    /\ reads = 0
    /\ buffer = <<>>
    /\ current_event = <<>>
    /\ message_id = <<>>
    /\ stream_model = <<>>
    /\ created = 0
    /\ sent_role = FALSE
    /\ sent_done = FALSE
    /\ finish_reason = <<>>
    /\ yielded = <<>>
    /\ tpc = "idle"
    /\ chat_stream = <<>>
    /\ polled = 0
    /\ tbuffer = <<>>
    /\ response_id = <<>>
    /\ response_model = <<>>
    /\ created_at = 0
    /\ emitted_created = FALSE
    /\ emitted_completed = FALSE
    /\ full_text = <<>>
    /\ emitted = <<>>
    /\ gerror = None
    /\ client = NoneOpt
    /\ adapter = None
    /\ stx = "idle"
    /\ stream_result = NoneOpt
    /\ registry = None
    /\ inputs = None
    /\ rq = None
    /\ upstream = <<>>

\* a request arrives at one of the three handlers
InitHandler ==
    /\ config \in Configs
    /\ req \in Requests
    /\ hpc = "recv"
    /\ calls = <<>>
    /\ idx = 0
    /\ data = <<>>
    /\ first_error = NoneOpt
    /\ fetched = NoneOpt
    /\ resp = NoneOpt
    /\ policy = None
    /\ plan = None
    /\ attempt = 0
    /\ rpc = "idle"
    /\ builds = 0
    /\ sends = 0
    /\ sleeps = <<>>
    /\ last = None
    /\ result = None
    /\ model = <<>>
    /\ route = NoneOpt
    /\ probe = None
    /\ creds = NoneOpt
    /\ acall = None
    /\ apc = "idle"
    /\ abody = NoneOpt
    /\ posted = <<>>
    /\ aresult = NoneOpt
    /\ spc = "idle"
    /\ reads = 0
    /\ buffer = <<>>
    /\ current_event = <<>>
    /\ message_id = <<>>
    /\ stream_model = <<>>
    /\ created = 0
    /\ sent_role = FALSE
    /\ sent_done = FALSE
    /\ finish_reason = <<>>
    /\ yielded = <<>>
    /\ tpc = "idle"
    /\ chat_stream = <<>>
    /\ polled = 0
    /\ tbuffer = <<>>
    /\ response_id = <<>>
    /\ response_model = <<>>
    /\ created_at = 0
    /\ emitted_created = FALSE
    /\ emitted_completed = FALSE
    /\ full_text = <<>>
    /\ emitted = <<>>
    /\ gerror = None
    /\ client = NoneOpt
    /\ adapter = None
    /\ stx = "idle"
    /\ stream_result = NoneOpt
    /\ registry = None
    /\ inputs = None
    /\ rq = None
    /\ upstream = <<>>

\* generate_text or stream_text of the Anthropic adapter is called
InitAnthropic ==
    /\ acall \in AnthropicCalls
    /\ apc = "start"
    /\ abody = NoneOpt
    /\ posted = <<>>
    /\ aresult = NoneOpt
    /\ model = <<>>
    /\ route = NoneOpt
    /\ policy = None
    /\ plan = None
    /\ attempt = 0
    /\ rpc = "idle"
    /\ builds = 0
    /\ sends = 0
    /\ sleeps = <<>>
    /\ last = None
    /\ result = None
    /\ config = None
    /\ probe = None
    /\ creds = NoneOpt
    /\ req = None
    /\ hpc = "idle"
    /\ calls = <<>>
    /\ idx = 0
    /\ data = <<>>
    /\ first_error = NoneOpt
    /\ fetched = NoneOpt
    /\ resp = NoneOpt
    /\ spc = "idle"
    /\ reads = 0
    /\ buffer = <<>>
    /\ current_event = <<>>
    /\ message_id = <<>>
    /\ stream_model = <<>>
    /\ created = 0
    /\ sent_role = FALSE
    /\ sent_done = FALSE
    /\ finish_reason = <<>>
    /\ yielded = <<>>
    /\ tpc = "idle"
    /\ chat_stream = <<>>
    /\ polled = 0
    /\ tbuffer = <<>>
    /\ response_id = <<>>
    /\ response_model = <<>>
    /\ created_at = 0
    /\ emitted_created = FALSE
    /\ emitted_completed = FALSE
    /\ full_text = <<>>
    /\ emitted = <<>>
    /\ gerror = None
    /\ client = NoneOpt
    /\ adapter = None
    /\ stx = "idle"
    /\ stream_result = NoneOpt
    /\ registry = None
    /\ inputs = None
    /\ rq = None
    /\ upstream = <<>>

\* stream_text got a 2xx response: the stream starts with the model of the
\* request and the time of the call
InitStream ==
    /\ spc = "await"
    /\ reads = 0
    /\ buffer = <<>>
    /\ current_event = <<>>
    /\ message_id = <<"c", "h", "a", "t", "c", "m", "p", "l", "-", "a", "n", "t", "h", "r", "o", "p", "i", "c">>
    /\ stream_model = Claude
    /\ created \in {0, 1700000000}
    /\ sent_role = FALSE
    /\ sent_done = FALSE
    /\ finish_reason = <<"s", "t", "o", "p">>
    /\ yielded = <<>>
    /\ acall = None
    /\ apc = "idle"
    /\ abody = NoneOpt
    /\ posted = <<>>
    /\ aresult = NoneOpt
    /\ model = <<>>
    /\ route = NoneOpt
    /\ policy = None
    /\ plan = None
    /\ attempt = 0
    /\ rpc = "idle"
    /\ builds = 0
    /\ sends = 0
    /\ sleeps = <<>>
    /\ last = None
    /\ result = None
    /\ config = None
    /\ probe = None
    /\ creds = NoneOpt
    /\ req = None
    /\ hpc = "idle"
    /\ calls = <<>>
    /\ idx = 0
    /\ data = <<>>
    /\ first_error = NoneOpt
    /\ fetched = NoneOpt
    /\ resp = NoneOpt
    /\ tpc = "idle"
    /\ chat_stream = <<>>
    /\ polled = 0
    /\ tbuffer = <<>>
    /\ response_id = <<>>
    /\ response_model = <<>>
    /\ created_at = 0
    /\ emitted_created = FALSE
    /\ emitted_completed = FALSE
    /\ full_text = <<>>
    /\ emitted = <<>>
    /\ gerror = None
    /\ client = NoneOpt
    /\ adapter = None
    /\ stx = "idle"
    /\ stream_result = NoneOpt
    /\ registry = None
    /\ inputs = None
    /\ rq = None
    /\ upstream = <<>>

\* stream_responses_from_chat_stream is given a chat stream
InitTranscode ==
    /\ tpc = "await"
    /\ chat_stream \in ChatStreams
    /\ polled = 0
    /\ tbuffer = <<>>
    /\ response_id = <<"r", "e", "s", "p", "_", "g", "a", "t", "e", "w", "a", "y">>
    /\ response_model = <<"u", "n", "k", "n", "o", "w", "n">>
    /\ created_at = 1700000000
    /\ emitted_created = FALSE
    /\ emitted_completed = FALSE
    /\ full_text = <<>>
    /\ emitted = <<>>
    /\ policy = None
    /\ plan = None
    /\ attempt = 0
    /\ rpc = "idle"
    /\ builds = 0
    /\ sends = 0
    /\ sleeps = <<>>
    /\ last = None
    /\ result = None
    /\ model = <<>>
    /\ route = NoneOpt
    /\ config = None
    /\ probe = None
    /\ creds = NoneOpt
    /\ req = None
    /\ hpc = "idle"
    /\ calls = <<>>
    /\ idx = 0
    /\ data = <<>>
    /\ first_error = NoneOpt
    /\ fetched = NoneOpt
    /\ resp = NoneOpt
    /\ acall = None
    /\ apc = "idle"
    /\ abody = NoneOpt
    /\ posted = <<>>
    /\ aresult = NoneOpt
    /\ spc = "idle"
    /\ reads = 0
    /\ buffer = <<>>
    /\ current_event = <<>>
    /\ message_id = <<>>
    /\ stream_model = <<>>
    /\ created = 0
    /\ sent_role = FALSE
    /\ sent_done = FALSE
    /\ finish_reason = <<>>
    /\ yielded = <<>>
    /\ gerror = None
    /\ client = NoneOpt
    /\ adapter = None
    /\ stx = "idle"
    /\ stream_result = NoneOpt
    /\ registry = None
    /\ inputs = None
    /\ rq = None
    /\ upstream = <<>>

\* a handler returns an error
InitError ==
    /\ gerror \in GatewayErrors
    /\ client = NoneOpt
    /\ policy = None
    /\ plan = None
    /\ attempt = 0
    /\ rpc = "idle"
    /\ builds = 0
    /\ sends = 0
    /\ sleeps = <<>>
    /\ last = None
    /\ result = None
    /\ model = <<>>
    /\ route = NoneOpt
    /\ config = None
    /\ probe = None
    /\ creds = NoneOpt
    /\ req = None
    /\ hpc = "idle"
    /\ calls = <<>>
    /\ idx = 0
    /\ data = <<>>
    /\ first_error = NoneOpt
    /\ fetched = NoneOpt
    /\ resp = NoneOpt
    /\ acall = None
    /\ apc = "idle"
    /\ abody = NoneOpt
    /\ posted = <<>>
    /\ aresult = NoneOpt
    /\ spc = "idle"
    /\ reads = 0
    /\ buffer = <<>>
    /\ current_event = <<>>
    /\ message_id = <<>>
    /\ stream_model = <<>>
    /\ created = 0
    /\ sent_role = FALSE
    /\ sent_done = FALSE
    /\ finish_reason = <<>>
    /\ yielded = <<>>
    /\ tpc = "idle"
    /\ chat_stream = <<>>
    /\ polled = 0
    /\ tbuffer = <<>>
    /\ response_id = <<>>
    /\ response_model = <<>>
    /\ created_at = 0
    /\ emitted_created = FALSE
    /\ emitted_completed = FALSE
    /\ full_text = <<>>
    /\ emitted = <<>>
    /\ adapter = None
    /\ stx = "idle"
    /\ stream_result = NoneOpt
    /\ registry = None
    /\ inputs = None
    /\ rq = None
    /\ upstream = <<>>

\* stream_text is called on an adapter whose retry policy allows one retry
InitStreamText ==
    /\ adapter \in {"Anthropic", "Gemini", "Kimi"}
    /\ stx = "start"
    /\ stream_result = NoneOpt
    /\ acall \in {[fn |-> "stream_text", api_key |-> ProviderKey("Anthropic"), request |-> r] :
           r \in StreamTextRequests}
    /\ policy = [max_retries |-> 1, base_delay_ms |-> U64(150)]
    /\ plan \in StreamTextPlans
    /\ attempt = 0
    /\ rpc = "idle"
    /\ builds = 0
    /\ sends = 0
    /\ sleeps = <<>>
    /\ last = None
    /\ result = None
    /\ model = <<>>
    /\ route = NoneOpt
    /\ config = None
    /\ probe = None
    /\ creds = NoneOpt
    /\ req = None
    /\ hpc = "idle"
    /\ calls = <<>>
    /\ idx = 0
    /\ data = <<>>
    /\ first_error = NoneOpt
    /\ fetched = NoneOpt
    /\ resp = NoneOpt
    /\ apc = "idle"
    /\ abody = NoneOpt
    /\ posted = <<>>
    /\ aresult = NoneOpt
    /\ spc = "idle"
    /\ reads = 0
    /\ buffer = <<>>
    /\ current_event = <<>>
    /\ message_id = <<>>
    /\ stream_model = <<>>
    /\ created = 0
    /\ sent_role = FALSE
    /\ sent_done = FALSE
    /\ finish_reason = <<>>
    /\ yielded = <<>>
    /\ tpc = "idle"
    /\ chat_stream = <<>>
    /\ polled = 0
    /\ tbuffer = <<>>
    /\ response_id = <<>>
    /\ response_model = <<>>
    /\ created_at = 0
    /\ emitted_created = FALSE
    /\ emitted_completed = FALSE
    /\ full_text = <<>>
    /\ emitted = <<>>
    /\ gerror = None
    /\ client = NoneOpt
    /\ registry = None
    /\ inputs = None
    /\ rq = None
    /\ upstream = <<>>

\* two requests have arrived at a gateway started with one retry allowed
InitConcurrent ==
    /\ registry = registry_new([max_retries |-> 1, base_delay_ms |-> U64(150)])
    /\ inputs \in [RequestIds -> TaskInputs]
    /\ rq = [r \in RequestIds |-> task_start(inputs[r])]
    /\ config \in {c \in Configs : \A k \in ProviderKind : c.api_keys[k] = NoneOpt}
    /\ policy = None
    /\ plan = None
    /\ attempt = 0
    /\ rpc = "idle"
    /\ builds = 0
    /\ sends = 0
    /\ sleeps = <<>>
    /\ last = None
    /\ result = None
    /\ model = <<>>
    /\ route = NoneOpt
    /\ probe = None
    /\ creds = NoneOpt
    /\ req = None
    /\ hpc = "idle"
    /\ calls = <<>>
    /\ idx = 0
    /\ data = <<>>
    /\ first_error = NoneOpt
    /\ fetched = NoneOpt
    /\ resp = NoneOpt
    /\ acall = None
    /\ apc = "idle"
    /\ abody = NoneOpt
    /\ posted = <<>>
    /\ aresult = NoneOpt
    /\ spc = "idle"
    /\ reads = 0
    /\ buffer = <<>>
    /\ current_event = <<>>
    /\ message_id = <<>>
    /\ stream_model = <<>>
    /\ created = 0
    /\ sent_role = FALSE
    /\ sent_done = FALSE
    /\ finish_reason = <<>>
    /\ yielded = <<>>
    /\ tpc = "idle"
    /\ chat_stream = <<>>
    /\ polled = 0
    /\ tbuffer = <<>>
    /\ response_id = <<>>
    /\ response_model = <<>>
    /\ created_at = 0
    /\ emitted_created = FALSE
    /\ emitted_completed = FALSE
    /\ full_text = <<>>
    /\ emitted = <<>>
    /\ gerror = None
    /\ client = NoneOpt
    /\ adapter = None
    /\ stx = "idle"
    /\ stream_result = NoneOpt
    /\ upstream = <<>>

\* stream_text has returned the chat stream and the transcoder is started on it
InitPipeline ==
    /\ adapter \in {"Anthropic", "Gemini"}
    /\ upstream \in (IF adapter = "Anthropic" THEN AnthropicScripts ELSE ChatScripts)
    /\ spc = IF adapter = "Anthropic" THEN "await" ELSE "pass"
    /\ message_id = <<"c", "h", "a", "t", "c", "m", "p", "l", "-", "a", "n", "t", "h", "r", "o", "p", "i", "c">>
    /\ stream_model = Claude
    /\ created = 1700000000
    /\ finish_reason = <<"s", "t", "o", "p">>
    /\ tpc = "await"
    /\ response_id = <<"r", "e", "s", "p", "_", "g", "a", "t", "e", "w", "a", "y">>
    /\ response_model = <<"u", "n", "k", "n", "o", "w", "n">>
    /\ created_at = 1700000000
    /\ policy = None
    /\ plan = None
    /\ attempt = 0
    /\ rpc = "idle"
    /\ builds = 0
    /\ sends = 0
    /\ sleeps = <<>>
    /\ last = None
    /\ result = None
    /\ model = <<>>
    /\ route = NoneOpt
    /\ config = None
    /\ probe = None
    /\ creds = NoneOpt
    /\ req = None
    /\ hpc = "idle"
    /\ calls = <<>>
    /\ idx = 0
    /\ data = <<>>
    /\ first_error = NoneOpt
    /\ fetched = NoneOpt
    /\ resp = NoneOpt
    /\ acall = None
    /\ apc = "idle"
    /\ abody = NoneOpt
    /\ posted = <<>>
    /\ aresult = NoneOpt
    /\ reads = 0
    /\ buffer = <<>>
    /\ current_event = <<>>
    /\ sent_role = FALSE
    /\ sent_done = FALSE
    /\ yielded = <<>>
    /\ chat_stream = <<>>
    /\ polled = 0
    /\ tbuffer = <<>>
    /\ emitted_created = FALSE
    /\ emitted_completed = FALSE
    /\ full_text = <<>>
    /\ emitted = <<>>
    /\ gerror = None
    /\ client = NoneOpt
    /\ stx = "idle"
    /\ stream_result = NoneOpt
    /\ registry = None
    /\ inputs = None
    /\ rq = None

NextRetry == BuildAndSend \/ Receive \/ Wake

SpecRetry == InitRetry /\ [][NextRetry]_vars

NextRoute == Resolve

SpecRoute == InitRoute /\ [][NextRoute]_vars

NextCred == ResolveBoth

SpecCred == InitCred /\ [][NextCred]_vars

NextAnthropic == AnthropicCall \/ AnthropicReturns

SpecAnthropic == InitAnthropic /\ [][NextAnthropic]_vars

NextStream == StreamChunk \/ StreamLine \/ StreamDrained \/ StreamError \/ StreamEnd

SpecStream == InitStream /\ [][NextStream]_vars

NextHandler ==
    \/ ListModels
    \/ FetchOneReturns
    \/ FetchAllReturns
    \/ ChatCompletions
    \/ Responses
    \/ AdapterReturns

SpecHandler == InitHandler /\ [][NextHandler]_vars

NextPipeline ==
    \/ AdapterChunk
    \/ AdapterLine
    \/ AdapterDrained
    \/ AdapterError
    \/ AdapterEnd
    \/ Handover
    \/ PassThrough
    \/ PassError
    \/ PassThroughEnd
    \/ TranscodeChunk
    \/ TranscodeLine
    \/ TranscodeDrained
    \/ ChatStreamError
    \/ ChatStreamEnd

SpecPipeline == InitPipeline /\ [][NextPipeline]_vars

NextConcurrent ==
    \/ TaskBody
    \/ TaskSend
    \/ TaskWake
    \/ TaskPoll
    \/ TaskEnd
    \/ TaskWrite

SpecConcurrent == InitConcurrent /\ [][NextConcurrent]_vars

NextStreamText ==
    \/ StreamTextCall
    \/ BuildAndSend
    \/ Receive
    \/ Wake
    \/ StreamTextReturns
    \/ StreamChunk
    \/ StreamLine
    \/ StreamDrained
    \/ StreamError
    \/ StreamEnd
    \/ PassChunk
    \/ PassError
    \/ PassEnd

SpecStreamText == InitStreamText /\ [][NextStreamText]_vars

NextError == IntoResponse

SpecError == InitError /\ [][NextError]_vars

NextTranscode ==
    \/ TranscodeChunk
    \/ TranscodeLine
    \/ TranscodeDrained
    \/ TranscodeError
    \/ TranscodeEnd

SpecTranscode == InitTranscode /\ [][NextTranscode]_vars

(***************************************************************************)
(* Properties of send_with_retry                                           *)
(***************************************************************************)
\* Naturals of up to 80 bits (five limbs), for the arithmetic the claims state.
Wide(a) == a \o <<0>>

RECURSIVE AddLimbs(_, _, _, _)
AddLimbs(a, b, i, carry) ==
    IF i > Len(a) THEN <<>>
    ELSE LET s == a[i] + b[i] + carry
         IN  <<s % Limb>> \o AddLimbs(a, b, i + 1, s \div Limb)

BigAdd(a, b) == AddLimbs(a, b, 1, 0)

RECURSIVE MulLimbs(_, _, _, _)
MulLimbs(a, f, i, carry) ==
    IF i > Len(a) THEN <<>>
    ELSE LET p == a[i] * f + carry
         IN  <<p % Limb>> \o MulLimbs(a, f, i + 1, p \div Limb)

BigMul(a, f) == MulLimbs(a, f, 1, 0)

RECURSIVE Doubled(_, _)
Doubled(x, e) == IF e = 0 THEN x ELSE Doubled(BigAdd(x, x), e - 1)

Saturate(w) == IF w[5] # 0 THEN U64Max ELSE SubSeq(w, 1, 4)

\* base * 2^min(n,5), saturating at 2^64 - 1
ExpectedDelay(base, n) == Saturate(Doubled(Wide(base), Min(n, 5)))

RECURSIVE SumWide(_)
SumWide(s) == IF s = <<>> THEN <<0, 0, 0, 0, 0>>
              ELSE BigAdd(Wide(Head(s)), SumWide(Tail(s)))

TotalSleep == SumWide(sleeps)

IsSuccess(r) == r # None /\ r.ok /\ r.val >= 200 /\ r.val <= 299

PlannedSuccess == plan.final.kind = "status" /\ plan.final.val \in 200..299

\* C1: k retryable failures followed by a success: the success is returned
\* iff k <= max_retries; with k > max_retries the outcome of attempt number
\* max_retries + 1 (a retryable failure) is returned instead.
C1_SuccessIffWithinBudget ==
    (rpc = "done" /\ PlannedSuccess) =>
        /\ (IsSuccess(result) <=> plan.failures <= policy.max_retries)
        /\ plan.failures <= policy.max_retries =>
              /\ result = [ok |-> TRUE, val |-> plan.final.val]
              /\ sends = plan.failures + 1
        /\ plan.failures > policy.max_retries =>
              /\ sends = policy.max_retries + 1
              /\ Retryable(last)
              /\ result = [ok |-> last.kind = "status", val |-> last.val]

C1_Witness ==
    /\ rpc = "done"
    /\ PlannedSuccess
    /\ plan.failures = 3
    /\ policy.max_retries = 3
    /\ result = [ok |-> TRUE, val |-> 200]

\* C2: one factory call per send, at most max_retries + 1 attempts, and the
\* first non-retryable outcome (or the last attempt's outcome) is returned.
C2_AttemptsBounded ==
    /\ builds = sends
    /\ sends <= policy.max_retries + 1
    /\ sends = (IF rpc = "start" THEN attempt ELSE attempt + 1)
    /\ rpc = "done" =>
          /\ result = [ok |-> last.kind = "status", val |-> last.val]
          /\ sends = Min(plan.failures, policy.max_retries) + 1
          /\ IF plan.failures <= policy.max_retries
             THEN last = plan.final
             ELSE last \in Outcomes \ FinalOutcomes

C2_Witness ==
    /\ rpc = "done"
    /\ policy.max_retries = 2
    /\ sends = 3
    /\ builds = 3
    /\ last = Failure("timeout")
    /\ result = [ok |-> FALSE, val |-> "timeout"]

\* C3: a response is retried iff its status is 429, 500, 502, 503 or 504 and
\* fewer than max_retries retries were used; any other status is returned at
\* once, with no retry and no sleep when it came on the first attempt.
C3_RetriedStatuses ==
    /\ (rpc = "sleeping" /\ last.kind = "status") =>
          /\ last.val \in {429, 500, 502, 503, 504}
          /\ attempt < policy.max_retries
    /\ (rpc = "done" /\ last.kind = "status") =>
          /\ result = [ok |-> TRUE, val |-> last.val]
          /\ ~(last.val \in {429, 500, 502, 503, 504} /\ attempt < policy.max_retries)
          /\ (last.val \notin {429, 500, 502, 503, 504} /\ plan.failures = 0) =>
                (attempt = 0 /\ sleeps = <<>> /\ sends = 1)

C3_Witness ==
    /\ rpc = "done"
    /\ last = Response(501)
    /\ policy.max_retries > 0
    /\ attempt = 0
    /\ sleeps = <<>>

\* C4: the sleep after failed attempt n is base_delay_ms * 2^min(n,5) ms,
\* saturating at the largest u64; nothing is slept after the returned attempt.
C4_BackoffDelays ==
    /\ \A i \in 1..Len(sleeps) :
          sleeps[i] = ExpectedDelay(policy.base_delay_ms, i - 1)
    /\ Len(sleeps) = (IF rpc = "sleeping" THEN attempt + 1 ELSE attempt)
    /\ rpc = "done" => Len(sleeps) = sends - 1

C4_Witness ==
    /\ rpc = "done"
    /\ Len(sleeps) = 7
    /\ sleeps[5] # U64Max
    /\ sleeps[6] = U64Max
    /\ sleeps[7] = U64Max

\* C5 as stated: with k <= max_retries failures before a success the sleeps
\* total base_delay_ms * (2^0 + ... + 2^(k-1)).
C5_TotalIsGeometric ==
    (rpc = "done" /\ PlannedSuccess /\ plan.failures <= policy.max_retries) =>
        TotalSleep = BigMul(Wide(policy.base_delay_ms), 2 ^ plan.failures - 1)

RECURSIVE SumExpected(_, _)
SumExpected(base, k) ==
    IF k = 0 THEN <<0, 0, 0, 0, 0>>
    ELSE BigAdd(Wide(ExpectedDelay(base, k - 1)), SumExpected(base, k - 1))

\* C5 amended: the sleeps total the sum over i < k of base * 2^min(i,5), each
\* term saturating; that is base * (2^k - 1) when k <= 6 and no term saturates.
C5_TotalIsCappedSum ==
    (rpc = "done" /\ PlannedSuccess /\ plan.failures <= policy.max_retries) =>
        /\ TotalSleep = SumExpected(policy.base_delay_ms, plan.failures)
        /\ (/\ plan.failures <= 6
            /\ Doubled(Wide(policy.base_delay_ms), plan.failures)[5] = 0) =>
              TotalSleep = BigMul(Wide(policy.base_delay_ms), 2 ^ plan.failures - 1)

C5_Witness ==
    /\ rpc = "done"
    /\ PlannedSuccess
    /\ plan.failures = 7
    /\ policy.base_delay_ms = U64(150)
    /\ TotalSleep = <<150 * 95, 0, 0, 0, 0>>

(***************************************************************************)
(* Properties of resolve_model                                             *)
(***************************************************************************)
\* s begins with a known provider id followed by "/"
HasProviderPrefix(s) == \E k \in ProviderKind : starts_with(s, id(k) \o <<"/">>)

\* s begins with two provider prefixes, one after the other
HasStackedPrefix(s) ==
    \E k1, k2 \in ProviderKind : starts_with(s, id(k1) \o <<"/">> \o id(k2) \o <<"/">>)

Resolved == route # NoneOpt
Kind == route[1][1]
Upstream == route[1][2]

\* C6: resolve_model(id(k) + "/" + rest) = (k, rest) for every kind k and
\* every rest: the prefix is stripped once, the remainder is untouched.
C6_PrefixStrippedOnce ==
    Resolved =>
        \A k \in ProviderKind :
            starts_with(model, id(k) \o <<"/">>) =>
                /\ Kind = k
                /\ id(k) \o <<"/">> \o Upstream = model

C6_Witness ==
    /\ Resolved
    /\ model = id("DeepSeek") \o <<"/">> \o <<"c", "l", "a", "u", "d", "e">>
    /\ Kind = "DeepSeek"
    /\ Upstream = <<"c", "l", "a", "u", "d", "e">>

\* C7 as stated: the upstream model name never begins with a known provider
\* id followed by "/".
C7_UpstreamNeverPrefixed == Resolved => ~HasProviderPrefix(Upstream)

\* C7 amended: the upstream model name begins with a known provider prefix
\* exactly when the model string carried two stacked provider prefixes, of
\* which only the first is stripped.
C7_UpstreamPrefixedIffStacked ==
    Resolved => (HasProviderPrefix(Upstream) <=> HasStackedPrefix(model))

C7_Witness ==
    /\ Resolved
    /\ model = id("OpenRouter") \o <<"/">> \o id("Anthropic") \o <<"/">>
    /\ Kind = "OpenRouter"
    /\ Upstream = id("Anthropic") \o <<"/">>

\* the provider a heuristic prefix of the lowercased model stands for
HeuristicKind(l) ==
    CASE starts_with(l, <<"c", "l", "a", "u", "d", "e">>) -> "Anthropic"
      [] starts_with(l, <<"g", "e", "m", "i", "n", "i">>) -> "Gemini"
      [] starts_with(l, <<"k", "i", "m", "i">>) -> "Kimi"
      [] starts_with(l, <<"d", "e", "e", "p", "s", "e", "e", "k">>) -> "DeepSeek"
      [] starts_with(l, <<"g", "r", "o", "k">>) -> "XAi"
      [] starts_with(l, <<"m", "i", "s", "t", "r", "a", "l">>) -> "Mistral"
      [] starts_with(l, <<"m", "i", "n", "i", "s", "t", "r", "a", "l">>) -> "Mistral"
      [] starts_with(l, <<"c", "o", "d", "e", "s", "t", "r", "a", "l">>) -> "Mistral"
      [] starts_with(l, <<"c", "o", "m", "m", "a", "n", "d">>) -> "Cohere"
      [] OTHER -> "OpenAi"

\* C8: a model string without a known provider prefix is returned unchanged,
\* case included, with the provider of the matching case-insensitive
\* heuristic prefix, and openai when none matches.
C8_HeuristicKeepsModel ==
    (Resolved /\ ~HasProviderPrefix(model)) =>
        /\ Upstream = model
        /\ Kind = HeuristicKind(to_ascii_lowercase(model))

C8_Witness ==
    /\ Resolved
    /\ model = <<"G", "E", "M", "I", "N", "I">> \o <<"x">>
    /\ Kind = "Gemini"
    /\ Upstream = model

(***************************************************************************)
(* Properties of auth.rs                                                   *)
(***************************************************************************)
CredsResolved == creds # NoneOpt
Cred1 == creds[1][1]
Cred2 == creds[1][2]

InAllowList(token) ==
    \E i \in 1..Len(config.gateway_api_keys) : config.gateway_api_keys[i] = token

PassesGateway(token) == config.gateway_api_keys = <<>> \/ InAllowList(token)

\* C9: with a key configured for the provider, any two client tokens that
\* pass gateway validation resolve to that same key; with none configured
\* each resolves to the client token itself.
C9_CredentialIndependentOfToken ==
    CredsResolved =>
        /\ Cred1.ok <=> PassesGateway(probe.t1)
        /\ Cred2.ok <=> PassesGateway(probe.t2)
        /\ (Cred1.ok /\ Cred2.ok) =>
              IF config.api_keys[probe.provider] # NoneOpt
              THEN /\ Cred1.val = ProviderKey(probe.provider)
                   /\ Cred2.val = Cred1.val
              ELSE /\ Cred1.val = probe.t1
                   /\ Cred2.val = probe.t2

C9_Witness ==
    /\ CredsResolved
    /\ probe.t1 = T1
    /\ probe.t2 = T2
    /\ config.gateway_api_keys = <<T1, T2>>
    /\ probe.provider = "Groq"
    /\ config.api_keys["Groq"] # NoneOpt
    /\ Cred1 = Ok(ProviderKey("Groq"))
    /\ Cred2 = Cred1

(***************************************************************************)
(* Properties of the handlers                                              *)
(***************************************************************************)
Done == hpc = "done"
Answer == resp[1]
IsError(r, kind) == ~r.ok /\ r.val[1] = kind

\* the bearer token was extracted, the allow-list is non-empty and does not
\* hold the token
TokenRefused ==
    /\ Token.ok
    /\ config.gateway_api_keys # <<>>
    /\ ~InAllowList(Token.val)

\* the chat request the handler derives from the body, when it can
ChatRequestOf(r) ==
    IF r.payload = Rejected THEN BadRequest("Invalid JSON request body")
    ELSE IF r.op = "responses" THEN build_chat_request(r.payload)
    ELSE Ok(r.payload)

\* the body passes the checks that come before credential resolution
BodyAccepted(r) ==
    /\ ChatRequestOf(r).ok
    /\ validate_chat_completion_request(ChatRequestOf(r).val).ok

\* C10 as stated: with a non-empty allow-list that does not hold the bearer
\* token, every authenticated operation ends in Unauthorized, whatever the
\* body or query.
C10_RefusedWhateverBody ==
    (Done /\ TokenRefused) => IsError(Answer, "Unauthorized")

\* C10 amended: such a request never reaches an adapter; list models ends in
\* Unauthorized whenever its query string deserializes (and in the
\* extractor's rejection when it does not), chat completion and responses end
\* in Unauthorized when the body passes the checks made before credential
\* resolution and in BadRequest when it does not.  With an empty allow-list
\* no extracted token is refused by the gateway.
C10_RefusedUnlessBadBody ==
    Done =>
        /\ TokenRefused =>
              /\ calls = <<>>
              /\ IF req.op = "list_models"
                 THEN IF Query.ok THEN Answer = Unauthorized("Invalid gateway API key")
                      ELSE Answer = Query
                 ELSE IF BodyAccepted(req)
                 THEN Answer = Unauthorized("Invalid gateway API key")
                 ELSE IsError(Answer, "BadRequest")
        /\ (Token.ok /\ config.gateway_api_keys = <<>>) =>
              ~(IsError(Answer, "Unauthorized") /\ Answer.val[2] = "Invalid gateway API key")

C10_Witness ==
    /\ Done
    /\ req.op = "responses"
    /\ req.authorization = Some(Bearer(T3))
    /\ config.gateway_api_keys = <<T1, T2>>
    /\ BodyAccepted(req)
    /\ get(req.payload, "input") = Some(JStr(<<"h", "i">>))
    /\ Answer = Unauthorized("Invalid gateway API key")
    /\ calls = <<>>

(***************************************************************************)
(* Properties of extract_bearer and of its place in the handlers          *)
(***************************************************************************)
BearerPrefix == <<"B", "e", "a", "r", "e", "r", " ">>

HasBearerPrefix(h) == Len(h) >= 7 /\ SubSeq(h, 1, 7) = BearerPrefix

AfterPrefix(h) == SubSeq(h, 8, Len(h))

Blank(t) == \A i \in 1..Len(t) : t[i] = " " \/ t[i] = "\t"

\* the header is missing, lacks the prefix, or carries a blank token
BearerMissingOrBlank ==
    \/ req.authorization = NoneOpt
    \/ ~HasBearerPrefix(req.authorization[1])
    \/ Blank(AfterPrefix(req.authorization[1]))

\* the header's value holds a byte that is not visible ASCII
BearerNotText ==
    /\ req.authorization # NoneOpt
    /\ \E i \in 1..Len(req.authorization[1]) : req.authorization[1][i] = OpaqueByte

\* C11 as stated: extract_bearer is Unauthorized for a missing header, a
\* header without the prefix "Bearer " and a blank token, and otherwise
\* returns the text after the prefix unchanged; every handler answers with
\* its error before anything else of the request is looked at.
C11_BearerFirst ==
    req # None =>
        /\ BearerMissingOrBlank => IsError(Token, "Unauthorized")
        /\ ~BearerMissingOrBlank => Token = Ok(AfterPrefix(req.authorization[1]))
        /\ (Done /\ ~Token.ok) => (Answer = Token /\ calls = <<>>)

\* C11 amended: extract_bearer is Unauthorized also for a header value that
\* is not visible ASCII; its error is the answer of chat completion and
\* responses whatever the body, and of list models unless the query string
\* fails to deserialize, which the extractor answers before the handler runs.
C11_BearerFirstInBody ==
    req # None =>
        /\ (BearerMissingOrBlank \/ BearerNotText) => IsError(Token, "Unauthorized")
        /\ ~(BearerMissingOrBlank \/ BearerNotText)
              => Token = Ok(AfterPrefix(req.authorization[1]))
        /\ (Done /\ ~Token.ok) =>
              /\ calls = <<>>
              /\ Answer = (IF req.op = "list_models" /\ ~Query.ok THEN Query ELSE Token)

C11_Witness ==
    /\ Done
    /\ req.op = "responses"
    /\ req.authorization = Some(<<"B", "a", "s", "i", "c", " ">> \o T1)
    /\ req.payload = Rejected
    /\ Answer = Unauthorized("Authorization must use Bearer token")
    /\ calls = <<>>

(***************************************************************************)
(* Properties of list_models without a provider query                     *)
(***************************************************************************)
\* the request reaches the loop over the registry
Aggregate ==
    /\ req # None
    /\ req.op = "list_models"
    /\ Query = Ok(NoneOpt)
    /\ Token.ok
    /\ PassesGateway(Token.val)

\* the data array of what a fetch_models returned, empty when it has none
EntriesOf(out) ==
    IF /\ out.ok
       /\ out.val[1] = "object"
       /\ "data" \in DOMAIN out.val[2]
       /\ out.val[2]["data"][1] = "array"
    THEN out.val[2]["data"][2]
    ELSE <<>>

RegistryOrder ==
    <<"OpenAi", "Anthropic", "Gemini", "Kimi", "OpenRouter", "VercelAiGateway", "Groq",
      "DeepSeek", "XAi", "Mistral", "Cohere", "AzureOpenAi", "AwsBedrock", "VertexAi">>

\* the calls made so far are fetch_models on the first providers of the
\* registry, in its order
CallsFollowRegistry ==
    /\ Len(calls) <= Len(RegistryOrder)
    /\ \A i \in 1..Len(calls) :
          /\ calls[i].kind = RegistryOrder[i]
          /\ calls[i].fn = "fetch_models"

\* one return of fetch_models inside the loop
AggregateStep ==
    hpc = "fetch_all" =>
        /\ data' = data \o EntriesOf(fetched'[1])
        /\ first_error' = (IF first_error = NoneOpt /\ ~fetched'[1].ok
                           THEN fetched' ELSE first_error)
        /\ IF Len(calls) < Len(RegistryOrder)
           THEN hpc' = "fetch_all" /\ Len(calls') = Len(calls) + 1
           ELSE /\ hpc' = "done"
                /\ resp' = Some(IF data' # <<>> THEN Ok(ModelList(data'))
                                ELSE IF first_error' # NoneOpt THEN first_error'[1]
                                ELSE BadRequest("No models available for the provided API key"))

\* C12: without a provider query list_models calls fetch_models on every
\* provider, one after the other in registry order, appends each returned
\* data array to the entries so far, retains only the first error, and
\* answers with the retained error only when no entry accumulated, with the
\* entries otherwise.
C12_AggregateInOrder ==
    /\ [](Aggregate => CallsFollowRegistry)
    /\ []((Aggregate /\ Done) => Len(calls) = Len(RegistryOrder))
    /\ []((Aggregate /\ Done /\ ~Answer.ok) => data = <<>>)
    /\ [][Aggregate => AggregateStep]_vars

C12_Witness ==
    /\ Aggregate
    /\ Done
    /\ Len(calls) = 14
    /\ first_error = Some(Err("Transport", "adapter"))
    /\ fetched = Some(Err("Upstream", "adapter"))
    /\ data = <<ModelEntry("OpenAi"), ModelEntry("Kimi")>>
    /\ Answer = Ok(ModelList(data))

(***************************************************************************)
(* Properties of the body chat_completions hands to the adapter           *)
(***************************************************************************)
\* the handler reached its adapter call
Handed == req # None /\ req.op = "chat_completions" /\ calls # <<>>

Sent == calls[1].request

ClientModel == req.payload[2]["model"][2]

\* C13: the body chat_completions hands to the adapter is the client's body
\* with model replaced by the upstream model name of resolve_model; every
\* other field, known or unknown, is the client's.
C13_OnlyModelRewritten ==
    Handed =>
        /\ Len(calls) = 1
        /\ Sent[1] = "object"
        /\ DOMAIN Sent[2] = DOMAIN req.payload[2]
        /\ \A k \in DOMAIN Sent[2] \ {"model"} : Sent[2][k] = req.payload[2][k]
        /\ Sent[2]["model"] = <<"string", resolve_model(ClientModel)[2]>>
        /\ calls[1].kind = resolve_model(ClientModel)[1]

C13_Witness ==
    /\ Handed
    /\ ClientModel = <<"a", "n", "t", "h", "r", "o", "p", "i", "c", "/", "c", "l", "a", "u", "d", "e">>
    /\ Sent[2]["model"] = <<"string", <<"c", "l", "a", "u", "d", "e">>>>
    /\ calls[1].kind = "Anthropic"
    /\ {"metadata", "stream"} \subseteq DOMAIN Sent[2]
    /\ Sent[2]["stream"] = <<"bool", TRUE>>
    /\ calls[1].fn = "stream_text"

(***************************************************************************)
(* Properties of the Anthropic request translation                         *)
(***************************************************************************)
Translated == abody # NoneOpt

Body == abody[1].val

Msgs == acall.request[2]["messages"][2]

\* the role a message states: its role field when that is a string
StatedRole(m) ==
    IF m[1] = "object" /\ "role" \in DOMAIN m[2] /\ m[2]["role"][1] = "string"
    THEN <<m[2]["role"][2]>>
    ELSE <<>>

\* the role the adapter goes by: a message that states none counts as user
EffectiveRole(m) == IF StatedRole(m) = <<>> THEN User ELSE StatedRole(m)[1]

TextOf(m) ==
    IF m[1] = "object" /\ "content" \in DOMAIN m[2]
    THEN extract_text_content(m[2]["content"])
    ELSE <<>>

WhitespaceOnly(t) == \A i \in 1..Len(t) : t[i] \in {" ", "\t", "\n", "\r"}

Block(role, text) ==
    <<"object", [role |-> <<"string", role>>,
                 content |-> <<"array", << <<"object", [type |-> <<"string", <<"t", "e", "x", "t">>>>,
                                                         text |-> <<"string", text>>]>> >> >>]>>

\* the messages that state the role user or assistant and have a text
StatedKept ==
    SelectSeq(Msgs, LAMBDA m : StatedRole(m) \in {<<User>>, <<Assistant>>}
                               /\ ~WhitespaceOnly(TextOf(m)))

\* the messages the adapter takes for user or assistant and that have a text
Kept ==
    SelectSeq(Msgs, LAMBDA m : EffectiveRole(m) \in {User, Assistant}
                               /\ ~WhitespaceOnly(TextOf(m)))

Blocks(ms) == [i \in 1..Len(ms) |-> Block(EffectiveRole(ms[i]), TextOf(ms[i]))]

\* C14 as stated: the output messages are, in order, the blocks of the
\* messages whose role is user or assistant and whose text is not
\* whitespace-only; no other message appears.
C14_KeptInOrder ==
    (Translated /\ abody[1].ok) => Body[2]["messages"] = <<"array", Blocks(StatedKept)>>

\* C14 amended: a message whose role is missing or not a string counts as a
\* user message; apart from that the output messages are as stated.
C14_KeptInOrderWithDefault ==
    (Translated /\ abody[1].ok) => Body[2]["messages"] = <<"array", Blocks(Kept)>>

C14_Witness ==
    /\ Translated
    /\ abody[1].ok
    /\ Len(Msgs) = 3
    /\ StatedRole(Msgs[1]) = <<Assistant>>
    /\ StatedRole(Msgs[2]) = <<<<"t", "o", "o", "l">>>>
    /\ StatedRole(Msgs[3]) = <<User>>
    /\ TextOf(Msgs[1]) = <<"a", "\n", "b">>
    /\ TextOf(Msgs[2]) = <<"h", "i">>
    /\ Body[2]["messages"] = <<"array", <<Block(Assistant, <<"a", "\n", "b">>),
                                          Block(User, <<"h", "i">>)>>>>

\* the texts of the system messages that have one, in request order
SystemTexts ==
    LET ms == SelectSeq(Msgs, LAMBDA m : StatedRole(m) = <<System>>
                                         /\ ~WhitespaceOnly(TextOf(m)))
    IN  [i \in 1..Len(ms) |-> TextOf(ms[i])]

RECURSIVE JoinedByBlankLine(_)
JoinedByBlankLine(texts) ==
    IF Len(texts) = 1 THEN texts[1]
    ELSE texts[1] \o <<"\n", "\n">> \o JoinedByBlankLine(Tail(texts))

\* C15: the body has a system key exactly when some system message has a
\* text that is not whitespace-only, and its value is those texts in request
\* order joined with two line feeds.
C15_SystemJoined ==
    (Translated /\ abody[1].ok) =>
        /\ ("system" \in DOMAIN Body[2]) <=> (SystemTexts # <<>>)
        /\ SystemTexts # <<>> =>
              Body[2]["system"] = <<"string", JoinedByBlankLine(SystemTexts)>>

C15_Witness ==
    /\ Translated
    /\ abody[1].ok
    /\ Len(Msgs) = 3
    /\ SystemTexts = << <<"a", "\n", "b">>, <<"h", "i">> >>
    /\ Body[2]["system"] = <<"string", <<"a", "\n", "b", "\n", "\n", "h", "i">>>>

\* C16: the translation is BadRequest, the call returns it and nothing is
\* sent upstream whenever no user or assistant message remains after the
\* filtering; it succeeds whenever one remains.
C16_EmptyAfterFilter ==
    /\ Translated =>
          IF Kept = <<>>
          THEN /\ abody[1] = BadRequest("At least one user or assistant message is required")
               /\ aresult = abody
               /\ posted = <<>>
          ELSE abody[1].ok
    /\ (acall # None /\ Kept = <<>>) => posted = <<>>

C16_Witness ==
    /\ Translated
    /\ apc = "done"
    /\ Len(Msgs) = 2
    /\ \A i \in 1..2 : StatedRole(Msgs[i]) = <<System>> /\ TextOf(Msgs[i]) = <<"h", "i">>
    /\ IsError(aresult[1], "BadRequest")
    /\ posted = <<>>

Field(key) == IF key \in DOMAIN acall.request[2] THEN <<acall.request[2][key]>> ELSE <<>>

IsUnsigned(f) == f # <<>> /\ f[1][1] = "number" /\ f[1][2] >= 0

\* C17 as stated: max_tokens is 1024 when neither max_tokens nor
\* max_completion_tokens is present; otherwise it is the value of
\* max_tokens when that is present and of max_completion_tokens when not.
C17_MaxTokensWhenPresent ==
    (Translated /\ abody[1].ok) =>
        Body[2]["max_tokens"] =
            (IF Field("max_tokens") # <<>> THEN Field("max_tokens")[1]
             ELSE IF Field("max_completion_tokens") # <<>> THEN Field("max_completion_tokens")[1]
             ELSE <<"number", 1024>>)

\* C17 amended: max_tokens is the value of max_tokens when that is an
\* unsigned integer, else that of max_completion_tokens when that is one,
\* else 1024; a value of another type counts as absent.
C17_MaxTokensWhenUnsigned ==
    (Translated /\ abody[1].ok) =>
        Body[2]["max_tokens"] =
            (IF IsUnsigned(Field("max_tokens")) THEN Field("max_tokens")[1]
             ELSE IF IsUnsigned(Field("max_completion_tokens"))
             THEN Field("max_completion_tokens")[1]
             ELSE <<"number", 1024>>)

C17_Witness ==
    /\ Translated
    /\ abody[1].ok
    /\ Field("max_tokens") = << <<"number", 5>> >>
    /\ Field("max_completion_tokens") = << <<"number", 9>> >>
    /\ Body[2]["max_tokens"] = <<"number", 5>>
    /\ Len(posted) = 1
    /\ posted[1].json = Body

(***************************************************************************)
(* Properties of the Anthropic stream adapter                              *)
(***************************************************************************)
IsChunk(f) == f[1] = "data: " /\ f[2][1] = "json"

ChoiceOf(f) == f[2][2][2]["choices"][2][1][2]

DeltaOf(f) == ChoiceOf(f)["delta"][2]

IsRoleChunk(f) ==
    /\ IsChunk(f)
    /\ DOMAIN DeltaOf(f) = {"role"}
    /\ DeltaOf(f)["role"] = <<"string", Assistant>>

IsContentChunk(f) == IsChunk(f) /\ DOMAIN DeltaOf(f) = {"content"}

ContentOf(f) == DeltaOf(f)["content"][2]

IsFinalChunk(f) ==
    /\ IsChunk(f)
    /\ DOMAIN DeltaOf(f) = {}
    /\ ChoiceOf(f)["finish_reason"][1] = "string"

IsDone(f) == f[1] = "data: " /\ f[2][1] = "text" /\ f[2][2] = "[DONE]"

RoleChunks == {i \in 1..Len(yielded) : IsRoleChunk(yielded[i])}

ContentChunks == {i \in 1..Len(yielded) : IsContentChunk(yielded[i])}

\* the items the step adds to what was yielded
Added == SubSeq(yielded', Len(yielded) + 1, Len(yielded'))

\* the adapter is about to take a line from its buffer
TakesLine == spc = "lines" /\ \E i \in 1..Len(buffer) : buffer[i] = "\n"

\* that line, without its line end
TakenLine ==
    LET n == CHOOSE i \in 1..Len(buffer) :
                 buffer[i] = "\n" /\ \A j \in 1..(i - 1) : buffer[j] # "\n"
        raw == SubSeq(buffer, 1, n - 1)
    IN  IF raw # <<>> /\ raw[Len(raw)] = "\r" THEN SubSeq(raw, 1, Len(raw) - 1) ELSE raw

\* the line is a data line that holds JSON, read under the given event
TakesJson(event) ==
    /\ TakesLine
    /\ current_event = <<event>>
    /\ TakenLine # <<>>
    /\ Head(TakenLine) = "data:"
    /\ from_str(trim(Tail(TakenLine))) # NoneOpt

TakenJson == from_str(trim(Tail(TakenLine)))[1]

\* the text of the content_block_delta being taken, empty when it has none
TakenText ==
    IF /\ "delta" \in DOMAIN TakenJson[2]
       /\ TakenJson[2]["delta"][1] = "object"
       /\ "text" \in DOMAIN TakenJson[2]["delta"][2]
       /\ TakenJson[2]["delta"][2]["text"][1] = "string"
    THEN TakenJson[2]["delta"][2]["text"][2]
    ELSE <<>>

\* a role chunk is directly followed by a content chunk, no content chunk
\* comes before it, and there is at most one
RoleLeadsContent ==
    /\ Cardinality(RoleChunks) <= 1
    /\ \A i \in RoleChunks :
          /\ i < Len(yielded)
          /\ IsContentChunk(yielded[i + 1])
          /\ \A j \in 1..(i - 1) : ~IsContentChunk(yielded[j])

\* what taking a content_block_delta adds
DeltaStep ==
    TakesJson("content_block_delta") =>
        IF TakenText = <<>> THEN Added = <<>>
        ELSE IF RoleChunks = {}
        THEN /\ Len(Added) = 2
             /\ IsRoleChunk(Added[1])
             /\ IsContentChunk(Added[2])
             /\ ContentOf(Added[2]) = TakenText
        ELSE /\ Len(Added) = 1
             /\ IsContentChunk(Added[1])
             /\ ContentOf(Added[1]) = TakenText

\* C18 as stated: every stream has exactly one role chunk, right before its
\* first content chunk.
C18_RoleExactlyOnce ==
    spc = "closed" => (Cardinality(RoleChunks) = 1 /\ RoleLeadsContent)

\* C18 amended: a stream without a non-empty text delta has no role chunk;
\* otherwise the role chunk is emitted once, right before the content chunk
\* of the first non-empty delta; every later non-empty delta adds exactly one
\* content chunk and an empty delta adds nothing.
C18_RoleOnceBeforeFirstContent ==
    /\ [](RoleLeadsContent /\ (ContentChunks # {} => RoleChunks # {}))
    /\ [][DeltaStep]_vars

C18_Witness ==
    /\ Len(yielded) = 3
    /\ IsRoleChunk(yielded[1])
    /\ IsContentChunk(yielded[2]) /\ ContentOf(yielded[2]) = <<"H", "e">>
    /\ IsContentChunk(yielded[3]) /\ ContentOf(yielded[3]) = <<"y">>
    /\ spc = "await"
    /\ ~sent_done

\* C19: taking the data of a message_stop event adds the final chunk, with
\* an empty delta and the current finish_reason, and right after it the
\* [DONE] frame, and marks the stream as done.
C19_StopEmitsTerminalPair ==
    [][TakesJson("message_stop") =>
          /\ Len(Added) = 2
          /\ IsFinalChunk(Added[1])
          /\ ChoiceOf(Added[1])["finish_reason"] = <<"string", finish_reason>>
          /\ IsDone(Added[2])
          /\ sent_done']_vars

C19_Witness ==
    /\ spc = "lines"
    /\ current_event = <<"message_stop">>
    /\ sent_done
    /\ Len(yielded) = 4
    /\ IsContentChunk(yielded[2])
    /\ IsFinalChunk(yielded[3])
    /\ ChoiceOf(yielded[3])["finish_reason"] = <<"string", <<"l", "e", "n", "g", "t", "h">>>>
    /\ IsDone(yielded[4])

\* the upstream ends
Ends == spc = "await" /\ spc' = "closed"

StopTaken == \E i \in 1..Len(yielded) : IsFinalChunk(yielded[i])

DoneSent == \E i \in 1..Len(yielded) : IsDone(yielded[i])

TerminalPair ==
    /\ Len(Added) = 2
    /\ IsFinalChunk(Added[1])
    /\ ChoiceOf(Added[1])["finish_reason"] = <<"string", finish_reason>>
    /\ IsDone(Added[2])

FramesOf(items) == {items[i] : i \in {j \in 1..Len(items) : items[j][1] # "error"}}

\* two line feeds
TwoLineFeeds == "\n\n"

\* C21 as stated: every frame of the Anthropic stream adapter and of the
\* Responses transcoder is "data: ", the payload and two line feeds, and
\* the terminator is "data: [DONE]" and two line feeds.
C21_FramesEndInLineFeeds ==
    \A f \in FramesOf(yielded) \cup FramesOf(emitted) :
        /\ f[1] = "data: "
        /\ f[3] = TwoLineFeeds
        /\ (f[2][1] = "text" => f[2][2] = "[DONE]")

\* a stream that has ended with the terminal pair, whose frames end in a
\* backslash and the letter n, twice
C21_Witness ==
    /\ spc = "closed"
    /\ Len(yielded) = 2
    /\ IsFinalChunk(yielded[1])
    /\ IsDone(yielded[2])
    /\ yielded[1][3] = "\\n\\n"
    /\ yielded[2][3] = "\\n\\n"
    /\ yielded[2][3] # TwoLineFeeds

(***************************************************************************)
(* Properties of the Responses streaming transcoder                        *)
(***************************************************************************)
IsEvent(f, type) ==
    /\ f[1] = "data: "
    /\ f[2][1] = "json"
    /\ "type" \in DOMAIN f[2][2][2]
    /\ f[2][2][2]["type"] = <<"string", type>>

IsCreated(f) == IsEvent(f, <<"r", "e", "s", "p", "o", "n", "s", "e", ".", "c", "r", "e", "a", "t", "e", "d">>)
IsDelta(f) == IsEvent(f, <<"r", "e", "s", "p", "o", "n", "s", "e", ".", "o", "u", "t", "p", "u", "t", "_", "t", "e", "x", "t", ".", "d", "e", "l", "t", "a">>)
IsCompleted(f) == IsEvent(f, <<"r", "e", "s", "p", "o", "n", "s", "e", ".", "c", "o", "m", "p", "l", "e", "t", "e", "d">>)

CreatedEvents == {i \in 1..Len(emitted) : IsCreated(emitted[i])}
DeltaEvents == {i \in 1..Len(emitted) : IsDelta(emitted[i])}
CompletedEvents == {i \in 1..Len(emitted) : IsCompleted(emitted[i])}
DoneFrames == {i \in 1..Len(emitted) : IsDone(emitted[i])}

DeltaField(f) == f[2][2][2]["delta"][2]
OutputText(f) == f[2][2][2]["response"][2]["output_text"][2]
ContentText(f) ==
    f[2][2][2]["response"][2]["output"][2][1][2]["content"][2][1][2]["text"][2]

\* the delta fields of the delta events among the first n items, joined
RECURSIVE DeltasUpTo(_)
DeltasUpTo(n) ==
    IF n = 0 THEN <<>>
    ELSE DeltasUpTo(n - 1) \o (IF IsDelta(emitted[n]) THEN DeltaField(emitted[n]) ELSE <<>>)

\* the chat stream is a sequence of whole events with a [DONE] event at its
\* end and nowhere else
WholeEvents == ChatEvents \cup {Event("K_role") \o Event("K_He")}

WellFormed ==
    /\ chat_stream # <<>>
    /\ \A i \in 1..Len(chat_stream) :
          /\ chat_stream[i] \in WholeEvents
          /\ (chat_stream[i] = Event("[DONE]")) <=> (i = Len(chat_stream))

\* the response.created event comes once at most and before every delta
CreatedLeadsDeltas ==
    /\ Cardinality(CreatedEvents) <= 1
    /\ \A i \in CreatedEvents : \A j \in DeltaEvents : i < j

\* one response.completed event, and right after it the one [DONE] frame
OneCompletedPair ==
    /\ Cardinality(CompletedEvents) = 1
    /\ Cardinality(DoneFrames) = 1
    /\ \A i \in CompletedEvents : i + 1 \in DoneFrames

C24_CompletedOnce ==
    /\ Cardinality(CompletedEvents) <= 1
    /\ Cardinality(DoneFrames) <= 1
    /\ (emitted_completed => OneCompletedPair)
    /\ (tpc = "closed" => OneCompletedPair)

C24_Witness ==
    /\ tpc = "closed"
    /\ chat_stream = <<Event("K_stop"), Event("K_stop"), Event("[DONE]")>>
    /\ Len(emitted) = 3
    /\ IsCompleted(emitted[2])
    /\ IsDone(emitted[3])

\* the chat stream ends
ChatEnds == tpc = "await" /\ tpc' = "closed"

\* the items the step adds to what the transcoder emitted
Emits == SubSeq(emitted', Len(emitted) + 1, Len(emitted'))

\* what the end of the chat stream adds when nothing was completed
EndOfChat ==
    (ChatEnds /\ ~emitted_completed) =>
        LET n == Len(Emits)
        IN  /\ n = (IF emitted_created THEN 2 ELSE 3)
            /\ (~emitted_created => IsCreated(Emits[1]))
            /\ IsCompleted(Emits[n - 1])
            /\ OutputText(Emits[n - 1]) = full_text
            /\ IsDone(Emits[n])

BuildsFromInput ==
    /\ hpc # "recv"
    /\ req.op = "responses"
    /\ Token.ok
    /\ req.payload # Rejected
    /\ get_str(req.payload, "model") # NoneOpt
    /\ get_array(req.payload, "messages") = NoneOpt
    /\ get(req.payload, "input") # NoneOpt

Input == get(req.payload, "input")[1]

Extracted(entry) ==
    IF get(entry, "content") = NoneOpt THEN <<>> ELSE extract_text(get(entry, "content")[1])

HasStringRole(entry) == get(entry, "role") # NoneOpt /\ get(entry, "role")[1][1] = "string"

HasStringText(entry) == get(entry, "text") # NoneOpt /\ get(entry, "text")[1][1] = "string"

\* the messages the claim gives for the entries, an entry "without a role"
\* being one that has no role field
RECURSIVE StatedMessages(_)
StatedMessages(entries) ==
    IF entries = <<>> THEN <<>>
    ELSE (IF HasStringRole(Head(entries)) /\ Extracted(Head(entries)) # <<>>
          THEN <<Message(get(Head(entries), "role")[1][2], Extracted(Head(entries)))>>
          ELSE IF get(Head(entries), "role") = NoneOpt /\ HasStringText(Head(entries))
          THEN <<Message(<<"u", "s", "e", "r">>, get(Head(entries), "text")[1][2])>>
          ELSE <<>>)
         \o StatedMessages(Tail(entries))

\* the same with an entry "without a role" being one whose role is missing
\* or is no string
RECURSIVE StringRoleMessages(_)
StringRoleMessages(entries) ==
    IF entries = <<>> THEN <<>>
    ELSE (IF HasStringRole(Head(entries))
          THEN (IF Extracted(Head(entries)) # <<>>
                THEN <<Message(get(Head(entries), "role")[1][2], Extracted(Head(entries)))>>
                ELSE <<>>)
          ELSE IF HasStringText(Head(entries))
          THEN <<Message(<<"u", "s", "e", "r">>, get(Head(entries), "text")[1][2])>>
          ELSE <<>>)
         \o StringRoleMessages(Tail(entries))

\* the handler answered BadRequest and called no adapter
RefusedAsBad == calls = <<>> /\ resp # NoneOpt /\ ~resp[1].ok /\ resp[1].val[1] = "BadRequest"

\* the messages of the request handed to the adapter, when one was called
Built(messages) == calls # <<>> => get(calls[1].request, "messages") = Some(JArr(messages))

\* C26 as stated: a string input gives one user message; an array gives, in
\* order, a message per entry with a string role and non-empty extracted
\* content and a user message per entry without a role that has a string
\* text; the rest is dropped; no message, an empty array and any other input
\* give BadRequest.
C26_MessagesFromInput ==
    BuildsFromInput =>
        IF Input[1] = "string" THEN Built(<<Message(<<"u", "s", "e", "r">>, Input[2])>>)
        ELSE IF Input[1] = "array" /\ StatedMessages(Input[2]) # <<>>
        THEN Built(StatedMessages(Input[2]))
        ELSE RefusedAsBad

\* C26 amended: an entry whose role is missing or is no string counts as
\* one without a role, so it gives a user message when it has a string text.
C26_MessagesFromInputByStringRole ==
    BuildsFromInput =>
        IF Input[1] = "string" THEN Built(<<Message(<<"u", "s", "e", "r">>, Input[2])>>)
        ELSE IF Input[1] = "array" /\ StringRoleMessages(Input[2]) # <<>>
        THEN Built(StringRoleMessages(Input[2]))
        ELSE RefusedAsBad

C26_Witness ==
    /\ BuildsFromInput
    /\ Input[1] = "array"
    /\ Len(Input[2]) = 3
    /\ calls # <<>>
    /\ get(calls[1].request, "messages")
           = Some(JArr(<<Message(<<"u", "s", "e", "r">>, <<"y", "o">>), Message(<<"u", "s", "e", "r">>, <<"k">>)>>))

(***************************************************************************)
(* Properties of GatewayError::into_response                               *)
(***************************************************************************)
\* an Upstream error was made into the client's response
UpstreamAnswered == gerror # None /\ gerror[1] = "Upstream" /\ client # NoneOpt

UpstreamBody == gerror[2].body

\* the error envelope of an upstream body that is no JSON
Wrapped ==
    /\ client[1].body[1] = "envelope"
    /\ client[1].body[2].type = "upstream_error"
    /\ client[1].body[2].message =
           IF \A i \in 1..Len(UpstreamBody) : UpstreamBody[i][1] = "w"
           THEN <<Word("Upstream provider returned "), Num(gerror[2].status)>>
           ELSE UpstreamBody

\* C27 as stated: the response has the upstream status; an upstream body
\* that is JSON is the response body, byte for byte; any other body is in
\* the message of an upstream_error envelope, a blank one as "Upstream
\* provider returned <status>".
C27_UpstreamForwardedVerbatim ==
    UpstreamAnswered =>
        /\ client[1].status = gerror[2].status
        /\ IF parse_body(UpstreamBody) # NoneOpt
           THEN client[1].body[1] = "json" /\ client[1].body[2] = UpstreamBody
           ELSE Wrapped

\* C27 amended: an upstream body that is JSON is forwarded as the JSON value
\* it holds, written anew in compact form: the response body parses to the
\* same value and has no whitespace between its tokens.
C27_UpstreamForwardedAsValue ==
    UpstreamAnswered =>
        /\ client[1].status = gerror[2].status
        /\ IF parse_body(UpstreamBody) # NoneOpt
           THEN /\ client[1].body[1] = "json"
                /\ parse_body(client[1].body[2]) = parse_body(UpstreamBody)
                /\ client[1].body[2] = significant(UpstreamBody)
           ELSE Wrapped

C27_Witness ==
    /\ UpstreamAnswered
    /\ gerror[2].status = 400
    /\ UpstreamBody = <<P("{"), W(" "), Str(<<"e", "r", "r", "o", "r">>), P(":"), W(" "),
                        Str(<<"n", "o", "p", "e">>), W(" "), P("}")>>
    /\ client[1].status = 400
    /\ client[1].body = <<"json", <<P("{"), Str(<<"e", "r", "r", "o", "r">>), P(":"),
                                    Str(<<"n", "o", "p", "e">>), P("}")>>>>

(***************************************************************************)
(* Properties of stream_text                                               *)
(***************************************************************************)
\* C28: a request is sent upstream only inside the one send_with_retry call
\* that stream_text makes before it returns; once it has returned, with a
\* stream or with an error, no step sends again, whether the stream is
\* read to its end, ends early or fails.
C28_SendsOnlyInInitialCall ==
    /\ [][sends' # sends =>
            /\ stx = "sending"
            /\ stream_result = NoneOpt
            /\ sends' = sends + 1]_vars
    /\ [][(rpc = "idle" /\ rpc' # "idle") => (stx = "start" /\ sends = 0)]_vars
    /\ [](stx = "done" => (rpc \in {"idle", "done"} /\ sends <= policy.max_retries + 1))

C28_Witness ==
    /\ adapter = "Anthropic"
    /\ stx = "done"
    /\ stream_result = Some(Ok("stream"))
    /\ sends = 2
    /\ spc = "failed"
    /\ Len(yielded) >= 2
    /\ yielded[Len(yielded)][1] = "error"

\* a response came back from send_with_retry and stream_text has returned
Responded == stx = "done" /\ rpc = "done" /\ result.ok

\* C29 as stated: stream_text returns the Upstream error with the status of
\* the response exactly when that status is not 2xx, and a stream for every
\* 2xx status, whatever the adapter.
C29_UpstreamIffNot2xx ==
    Responded =>
        IF 200 <= result.val /\ result.val <= 299
        THEN stream_result[1].ok
        ELSE /\ ~stream_result[1].ok
             /\ stream_result[1].val[1] = "Upstream"
             /\ stream_result[1].val[2].status = result.val

\* Gemini's stream_text has returned the Upstream error for a 204 response
C29_Witness ==
    /\ Responded
    /\ adapter = "Gemini"
    /\ result.val = 204
    /\ stream_result = Some(Err("Upstream", [status |-> 204, body |-> <<>>]))

(***************************************************************************)
(* Properties of requests in flight together                               *)
(***************************************************************************)
\* the next state of a request that runs on its own
task_step(t, inp, cfg, reg) ==
    IF t.pc = "body" THEN responses_begin(t, inp, cfg)
    ELSE IF t.pc = "send" THEN retry_turn(t, inp.outcomes[t.sent + 1], reg[t.kind])
    ELSE IF t.pc = "sleep" THEN retry_wake(t)
    ELSE IF t.pending # <<>> THEN write_frame(t)
    ELSE IF t.polled < Len(inp.chunks) THEN poll_chunk(t, inp.chunks[t.polled + 1])
    ELSE poll_end(t, inp.tail)

\* the states a request goes through when it runs alone
RECURSIVE Alone(_, _, _, _)
Alone(t, inp, cfg, reg) ==
    IF Finished(t) THEN {t} ELSE {t} \cup Alone(task_step(t, inp, cfg, reg), inp, cfg, reg)

\* the state in which a request that runs alone is over
RunAlone(inp, cfg, reg) ==
    CHOOSE t \in Alone(task_start(inp), inp, cfg, reg) : Finished(t)

\* every request is in a state of its run alone, and a request that is over
\* has the result and the frames of its run alone
RunsAsAlone ==
    \A r \in RequestIds :
        /\ rq[r] \in Alone(task_start(inputs[r]), inputs[r], config, registry)
        /\ Finished(rq[r]) =>
              /\ rq[r].result = RunAlone(inputs[r], config, registry).result
              /\ rq[r].written = RunAlone(inputs[r], config, registry).written

\* C30: whatever the interleaving of the steps of two requests, each request
\* is at every moment in a state of its run alone and ends with the result and
\* the frames of its run alone; a step changes a request only as the step of
\* its run alone does, and no step modifies the registry with its retry
\* policy or the config.
C30_RequestsDoNotInterfere ==
    /\ []RunsAsAlone
    /\ [][/\ registry' = registry
          /\ config' = config
          /\ \A r \in RequestIds :
                \/ rq'[r] = rq[r]
                \/ /\ ~Finished(rq[r])
                   /\ rq'[r] = task_step(rq[r], inputs[r], config, registry)]_vars

\* one request sleeps before its retry while the other, part of whose frames
\* are written, holds the beginning of a line in its buffer
C30_Witness ==
    \E a, b \in RequestIds :
        /\ a # b
        /\ rq[a].pc = "sleep"
        /\ rq[b].pc = "stream"
        /\ rq[b].buffer # <<>>
        /\ rq[b].written # <<>>

(***************************************************************************)
(* Properties of the adapter and the transcoder on a scripted upstream     *)
(***************************************************************************)
RECURSIVE Joined(_)
Joined(chunks) ==
    IF chunks = <<>> THEN <<>> ELSE from_utf8_lossy(Head(chunks)) \o Joined(Tail(chunks))

\* the text the adapter has received
Received == Joined(SubSeq(upstream, 1, reads))

RECURSIVE SplitLines(_)
SplitLines(bytes) ==
    IF find_newline(bytes) = 0 THEN <<>>
    ELSE <<next_line(bytes)>> \o SplitLines(SubSeq(bytes, find_newline(bytes) + 1, Len(bytes)))

\* the lines the adapter has handled: those received but for the buffer
Handled == SplitLines(SubSeq(Received, 1, Len(Received) - Len(buffer)))

\* what the lines say: the event in force, the id and the model of the most
\* recent message_start that has one, the stop_reason of the most recent
\* message_delta that has one
RECURSIVE Heard(_)
Heard(lines) ==
    IF lines = <<>>
    THEN [event |-> <<>>, id |-> NoneOpt, model |-> NoneOpt, stop_reason |-> NoneOpt]
    ELSE LET before == Heard(SubSeq(lines, 1, Len(lines) - 1))
             line == lines[Len(lines)]
             said == IF strip_prefix(line, <<"data:">>) = NoneOpt THEN NoneOpt
                     ELSE from_str(trim(strip_prefix(line, <<"data:">>)[1]))
         IN  IF strip_prefix(line, <<"event:">>) # NoneOpt
             THEN [before EXCEPT !.event = trim(strip_prefix(line, <<"event:">>)[1])]
             ELSE IF said = NoneOpt THEN before
             ELSE IF before.event = <<"message_start">>
             THEN [before EXCEPT
                     !.id = IF get_get_str(said[1], "message", "id") # NoneOpt
                            THEN get_get_str(said[1], "message", "id") ELSE @,
                     !.model = IF get_get_str(said[1], "message", "model") # NoneOpt
                               THEN get_get_str(said[1], "message", "model") ELSE @]
             ELSE IF before.event = <<"message_delta">>
                     /\ get_get_str(said[1], "delta", "stop_reason") # NoneOpt
             THEN [before EXCEPT !.stop_reason = get_get_str(said[1], "delta", "stop_reason")]
             ELSE before

IdOf(f) == f[2][2][2]["id"][2]
ModelOf(f) == f[2][2][2]["model"][2]
CreatedOf(f) == f[2][2][2]["created"][2]
FinishReasonOf(f) == ChoiceOf(f)["finish_reason"][2]

\* the finish_reason for a stop_reason, or for none
Mapped(stop_reason) ==
    IF stop_reason = NoneOpt THEN <<"s", "t", "o", "p">>
    ELSE IF stop_reason[1] = <<"m", "a", "x", "_", "t", "o", "k", "e", "n", "s">> THEN <<"l", "e", "n", "g", "t", "h">>
    ELSE IF stop_reason[1] = <<"t", "o", "o", "l", "_", "u", "s", "e">> THEN <<"t", "o", "o", "l", "_", "c", "a", "l", "l", "s">>
    ELSE <<"s", "t", "o", "p">>

\* C31: the finish_reason of a terminal chunk is the mapping (max_tokens to
\* length, tool_use to tool_calls, anything else to stop) of the last
\* stop_reason seen in a message_delta before it, or stop when there was
\* none; the id and the model of each chunk are those of the most recent
\* message_start, or "chatcmpl-anthropic" and the request's model when there
\* was none; created is the same in every chunk.
C31_ChunksFollowTheEvents ==
    [][adapter = "Anthropic" =>
        \A i \in 1..Len(Added) :
            IsChunk(Added[i]) =>
                /\ IdOf(Added[i]) = IF Heard(Handled).id = NoneOpt THEN <<"c", "h", "a", "t", "c", "m", "p", "l", "-", "a", "n", "t", "h", "r", "o", "p", "i", "c">>
                                    ELSE Heard(Handled).id[1]
                /\ ModelOf(Added[i]) = IF Heard(Handled).model = NoneOpt THEN Claude
                                       ELSE Heard(Handled).model[1]
                /\ CreatedOf(Added[i]) = created
                /\ created' = created
                /\ IsFinalChunk(Added[i]) =>
                      FinishReasonOf(Added[i]) = Mapped(Heard(Handled).stop_reason)]_vars

\* after two message_start events and the stop reasons max_tokens and
\* tool_use, message_stop has yielded the terminal chunk of the second
\* message with tool_calls; and a stream without message_stop has ended with
\* the terminal chunk that says stop, with the id of its message_start and the
\* model of the request
C31_Witness ==
    \/ /\ adapter = "Anthropic"
       /\ Len(yielded) >= 5
       /\ IsFinalChunk(yielded[Len(yielded) - 1])
       /\ IdOf(yielded[Len(yielded) - 1]) = <<"m", "s", "g", "_", "2">>
       /\ ModelOf(yielded[Len(yielded) - 1]) = <<"c", "l", "a", "u", "d", "e", "-", "4">>
       /\ FinishReasonOf(yielded[Len(yielded) - 1]) = <<"t", "o", "o", "l", "_", "c", "a", "l", "l", "s">>
       /\ IdOf(yielded[1]) = <<"m", "s", "g", "_", "1">>
    \/ /\ adapter = "Anthropic"
       /\ spc = "closed"
       /\ Len(yielded) >= 5
       /\ IsFinalChunk(yielded[Len(yielded) - 1])
       /\ IdOf(yielded[Len(yielded) - 1]) = <<"m", "s", "g", "_", "3">>
       /\ ModelOf(yielded[Len(yielded) - 1]) = Claude
       /\ IdOf(yielded[1]) = <<"c", "h", "a", "t", "c", "m", "p", "l", "-", "a", "n", "t", "h", "r", "o", "p", "i", "c">>

\* what the adapter yields for AnthropicBytes in one chunk
WholeAnthropicItems ==
    <<Frame(chunk_value(<<"c", "h", "a", "t", "c", "m", "p", "l", "-", "a", "n", "t", "h", "r", "o", "p", "i", "c">>, 1700000000, Claude,
                        JObj([role |-> JStr(Assistant)]), JNull)),
      Frame(chunk_value(<<"c", "h", "a", "t", "c", "m", "p", "l", "-", "a", "n", "t", "h", "r", "o", "p", "i", "c">>, 1700000000, Claude,
                        JObj([content |-> JStr(<<LeadByte, ContinuationByte>>)]), JNull)),
      Frame(chunk_value(<<"c", "h", "a", "t", "c", "m", "p", "l", "-", "a", "n", "t", "h", "r", "o", "p", "i", "c">>, 1700000000, Claude,
                        JObj([k \in {} |-> JNull]), JStr(<<"s", "t", "o", "p">>))),
      DoneFrame>>

\* what the transcoder emits for ChatBytes in one chunk
WholeChatItems ==
    poll_end(poll_chunk(task_start([now |-> 1700000000]), ChatBytes), "end").pending

AnthropicRunOver == adapter = "Anthropic" /\ spc = "closed" /\ upstream \in Partitions(AnthropicBytes)

ChatRunOver == adapter = "Gemini" /\ tpc = "closed" /\ upstream \in Partitions(ChatBytes)

\* no chunk ends inside a character
WholeCharacters == \A i \in 1..Len(upstream) : upstream[i][Len(upstream[i])] # LeadByte

\* C32 as stated: the output of both stream transcoders is the same for
\* every partition of the upstream bytes into chunks, a split inside a line
\* or between CR and LF included.
C32_PartitionInsensitive ==
    /\ AnthropicRunOver => yielded = WholeAnthropicItems
    /\ ChatRunOver => emitted = WholeChatItems

\* C32, what holds: the output is the same for every partition that splits
\* no character, a split inside a line or between CR and LF included.
C32_InsensitiveBetweenCharacters ==
    /\ AnthropicRunOver /\ WholeCharacters => yielded = WholeAnthropicItems
    /\ ChatRunOver /\ WholeCharacters => emitted = WholeChatItems

\* the chunks were split inside the character of the text delta, and the text
\* that comes out is two replacement characters
C32_Witness ==
    \/ /\ AnthropicRunOver
       /\ ~WholeCharacters
       /\ ContentOf(yielded[2]) = <<Replacement, Replacement>>
    \/ /\ ChatRunOver
       /\ ~WholeCharacters
       /\ DeltaField(emitted[2]) = <<Replacement, Replacement>>

DonesYielded == {i \in 1..Len(yielded) : IsDone(yielded[i])}

\* C34 as stated: for every sequence of upstream lines the output of the
\* Anthropic stream adapter holds exactly one [DONE] frame, which is its last
\* frame and comes right after a final chunk with a finish_reason.
C34_OneDoneLast ==
    spc = "closed" =>
        /\ Cardinality(DonesYielded) = 1
        /\ Len(yielded) >= 2
        /\ IsDone(yielded[Len(yielded)])
        /\ IsFinalChunk(yielded[Len(yielded) - 1])

\* C34, what holds: a stream that ends without a read error holds a [DONE]
\* frame, and every final chunk is followed at once by a [DONE] frame.
C34_DoneAfterEveryFinalChunk ==
    /\ spc = "closed" => DonesYielded # {}
    /\ \A i \in 1..Len(yielded) :
          IsFinalChunk(yielded[i]) => i < Len(yielded) /\ IsDone(yielded[i + 1])

\* the stream has ended with two terminal pairs and, after them, the chunks
\* of a text delta
C34_Witness ==
    /\ spc = "closed"
    /\ Cardinality(DonesYielded) = 2
    /\ Len(yielded) = 6
    /\ IsFinalChunk(yielded[1]) /\ IsDone(yielded[2])
    /\ IsFinalChunk(yielded[3]) /\ IsDone(yielded[4])
    /\ IsRoleChunk(yielded[5]) /\ IsContentChunk(yielded[6])

\* C35 as stated: for every input of the Responses transcoder a
\* response.created event is emitted before the response.completed event,
\* also when the first data line is [DONE].
C35_CreatedBeforeCompleted ==
    \A i \in CompletedEvents : \E j \in CreatedEvents : j < i

\* the chat stream began with the [DONE] line: response.completed and [DONE]
\* were emitted with no response.created, which the chunk after them brought
C35_Witness ==
    /\ chat_stream = <<Event("[DONE]"), Event("K_He")>>
    /\ tpc = "closed"
    /\ Len(emitted) = 4
    /\ IsCompleted(emitted[1])
    /\ IsDone(emitted[2])
    /\ IsCreated(emitted[3])
    /\ IsDelta(emitted[4])

\* C36 as stated: after the [DONE] frame the Responses transcoder emits no
\* response.created and no response.output_text.delta event.
C36_NothingAfterDone ==
    \A i \in DoneFrames :
        \A j \in (i + 1)..Len(emitted) : ~IsCreated(emitted[j]) /\ ~IsDelta(emitted[j])

\* a chunk with content came after the chunk with the finish_reason: its
\* delta event follows the [DONE] frame and is the last frame of the stream
C36_Witness ==
    /\ chat_stream = <<Event("K_stop"), Event("K_He")>>
    /\ tpc = "closed"
    /\ Len(emitted) = 4
    /\ IsCreated(emitted[1])
    /\ IsCompleted(emitted[2])
    /\ IsDone(emitted[3])
    /\ IsDelta(emitted[4])
    /\ DeltaField(emitted[4]) = <<"H", "e">>
    /\ OutputText(emitted[2]) = <<>>

(***************************************************************************)
(* Properties of the transcoder on the stream of the Anthropic adapter     *)
(***************************************************************************)
\* the texts of the content chunks among the items, joined
RECURSIVE ContentsJoined(_)
ContentsJoined(items) ==
    IF items = <<>> THEN <<>>
    ELSE (IF IsContentChunk(Head(items)) THEN ContentOf(Head(items)) ELSE <<>>)
         \o ContentsJoined(Tail(items))

\* the adapter yields one content chunk for each text delta that is not empty
TextDeltas == ContentChunks

\* C37 as stated: on the byte stream of the Anthropic adapter the Responses
\* transcoder emits one response.output_text.delta event for each text delta
\* that is not empty, and the output_text of response.completed is the text
\* of those deltas joined.
C37_DeltaPerTextDelta ==
    adapter = "Anthropic" /\ tpc = "closed" =>
        /\ Cardinality(DeltaEvents) = Cardinality(TextDeltas)
        /\ \A i \in CompletedEvents : OutputText(emitted[i]) = ContentsJoined(yielded)

\* the transcoder has taken every frame of an adapter stream with two text
\* deltas, found no line in them, and ended with response.created and a
\* response.completed without text
C37_Witness ==
    /\ adapter = "Anthropic"
    /\ tpc = "closed"
    /\ Cardinality(TextDeltas) = 2
    /\ ContentsJoined(yielded) = <<"H", "e", "y">>
    /\ polled = Len(yielded)
    /\ find_newline(tbuffer) = 0
    /\ Len(tbuffer) = 4 * Len(yielded)
    /\ DeltaEvents = {}
    /\ Len(emitted) = 3
    /\ IsCreated(emitted[1])
    /\ IsCompleted(emitted[2])
    /\ OutputText(emitted[2]) = <<>>
    /\ IsDone(emitted[3])

(***************************************************************************)
(* Properties of a read error in the middle of a stream                    *)
(***************************************************************************)
IsErrorItem(item) == item[1] = "error"

\* the error, if any, is the last item
ErrorLast(items) == \A i \in 1..Len(items) : IsErrorItem(items[i]) => i = Len(items)

\* C38: when a read of the upstream fails, each transcoder yields the error
\* as its last item, with no final chunk, response.completed event or [DONE]
\* frame after it, and a step takes back no item that was yielded before.
C38_ErrorEndsTheStream ==
    /\ [](/\ ErrorLast(yielded)
          /\ ErrorLast(emitted)
          /\ spc = "failed" => yielded # <<>> /\ IsErrorItem(yielded[Len(yielded)])
          /\ tpc = "failed" => emitted # <<>> /\ IsErrorItem(emitted[Len(emitted)]))
    /\ [][/\ Len(yielded') >= Len(yielded)
          /\ SubSeq(yielded', 1, Len(yielded)) = yielded
          /\ Len(emitted') >= Len(emitted)
          /\ SubSeq(emitted', 1, Len(emitted)) = emitted]_vars

\* the adapter's stream has ended with the error after two chunks and no
\* terminal pair, and the transcoder's with the same error; or the
\* transcoder's stream has ended with the error after response.created and a
\* delta event, with no response.completed
C38_Witness ==
    \/ /\ adapter = "Anthropic"
       /\ spc = "failed"
       /\ tpc = "failed"
       /\ Len(yielded) = 3
       /\ IsRoleChunk(yielded[1])
       /\ IsContentChunk(yielded[2])
       /\ IsErrorItem(yielded[3])
       /\ emitted # <<>>
       /\ IsErrorItem(emitted[Len(emitted)])
    \/ /\ adapter = "Gemini"
       /\ tpc = "failed"
       /\ Len(emitted) = 3
       /\ IsCreated(emitted[1])
       /\ IsDelta(emitted[2])
       /\ IsErrorItem(emitted[3])

(***************************************************************************)
(* Properties of the handlers' replies and calls                           *)
(***************************************************************************)
\* list_models without a provider query has replied to a request whose token
\* passes validate_gateway_key
AggregateReplied ==
    /\ hpc = "done"
    /\ resp # NoneOpt
    /\ req.op = "list_models"
    /\ Query.ok
    /\ Query.val = NoneOpt
    /\ Token.ok
    /\ validate_gateway_key(config, Token.val).ok

\* C39: list_models without a provider query answers every request whose
\* token passes the gateway's validation with a list whose data array is not
\* empty, even when every upstream call fails: Kimi's entry is always there,
\* so neither the retained first error nor "No models available" is returned.
C39_AggregateListNeverEmpty ==
    AggregateReplied =>
        /\ resp[1].ok
        /\ get_array(resp[1].val, "data") # NoneOpt
        /\ get_array(resp[1].val, "data")[1] # <<>>
        /\ \E i \in 1..Len(get_array(resp[1].val, "data")[1]) :
              get_array(resp[1].val, "data")[1][i] = ModelEntry("Kimi")

\* every provider was asked, the first call failed and its error was
\* retained, and the reply is the list with Kimi's entry alone
C39_Witness ==
    /\ AggregateReplied
    /\ Len(calls) = Len(registry_all)
    /\ first_error # NoneOpt
    /\ resp[1] = Ok(ModelList(<<ModelEntry("Kimi")>>))

\* C40: in list_models, chat_completions and responses every adapter call
\* (fetch_models, generate_text, stream_text) comes after extract_bearer and
\* validate_gateway_key have both succeeded for the request: nothing is sent
\* upstream for a request that fails authentication.
C40_NoCallBeforeAuthentication ==
    /\ [](calls # <<>> =>
            /\ Token.ok
            /\ validate_gateway_key(config, Token.val).ok)
    /\ [][calls' # calls =>
            /\ Token.ok
            /\ validate_gateway_key(config, Token.val).ok
            /\ calls'[Len(calls')].fn \in {"fetch_models", "generate_text", "stream_text"}]_vars

\* responses has called stream_text for a token that is one of the gateway's
\* configured keys
C40_Witness ==
    /\ req.op = "responses"
    /\ config.gateway_api_keys # <<>>
    /\ Len(calls) = 1
    /\ calls[1].fn = "stream_text"
    /\ \E i \in 1..Len(config.gateway_api_keys) : config.gateway_api_keys[i] = Token.val

====
